---- MODULE Spec2Model ----
(***************************************************************************)
(* Model of the client-side cryptographic core of the file-sharing client  *)
(* (client/qt_client/src): the password-protected ClientStore, the         *)
(* KeyBundle serialisation, the symmetric layer and the upload, download,  *)
(* listing and sharing handlers.                                           *)
(*                                                                         *)
(* Byte strings are records [len, val]: len is the length in bytes the     *)
(* code tests (32, 16, 44, 64 ...), val is the content as a sequence of    *)
(* chunks, each chunk a natural number.  Text (std::string) is a sequence  *)
(* of characters, each a natural number.                                   *)
(***************************************************************************)
EXTENDS Integers, Sequences, FiniteSets, TLC

\* ------------------------------------------------------------------ bounds
NumPwd == 2
NumRand == 2
NumId == 2
NumUser == 2
MaxChanges == 1
NumPlain == 2
MaxFiles == 1
NumThreads == 2
MaxCalls == 3
\* readings of the clock a request can be stamped with
NumClock == 2
\* file ids of the envelopes stored directly
NumEnv == 2

\* ------------------------------------------------------- program constants
KEY_LEN == 32
NONCE_LEN == 16
SALT_LEN == 16
SPKI_LEN == 44
RAW_PUB_LEN == 32
ED_SK_LEN == 64
ED_SIG_LEN == 64

\* --------------------------------------------------- representation sizes
\* chunk values produced by the block cipher and the KDF lie in 0..ChunkMod-1
ChunkMod == 2 ^ 5
\* hexadecimal digest alphabet: characters HexBase .. B64Base-1
HexBase == 2 ^ 11
\* Base64 alphabet: characters B64Base and above
B64Base == 2 ^ 12
\* structural characters of JSON text and of the canonical strings
Ch == [open |-> 123, close |-> 125, quote |-> 34, bar |-> 124]

Passwords == 1 .. NumPwd
RandVals == 0 .. (NumRand - 1)
Seeds == 1 .. NumId
Usernames == {<<96 + i>> : i \in 1 .. NumUser}

Bytes(n, v) == [len |-> n, val |-> v]
NoBytes == Bytes(0, <<>>)
Num(b) == IF b.val = <<>> THEN 0 ELSE b.val[1]

RECURSIVE XorBits(_, _)
XorBits(a, b) ==
    IF a = 0 THEN b
    ELSE IF b = 0 THEN a
    ELSE ((a + b) % 2) + 2 * XorBits(a \div 2, b \div 2)

\* bitwise exclusive or of the low bits, tabulated once
XorTable == [a \in 0 .. (ChunkMod - 1) |-> [b \in 0 .. (ChunkMod - 1) |-> XorBits(a, b)]]

\* a XOR b for b below ChunkMod: the high bits of a are kept
Xor(a, b) == (a \div ChunkMod) * ChunkMod + XorTable[a % ChunkMod][b]

RECURSIVE PowMod(_, _, _)
PowMod(b, e, m) == IF e = 0 THEN 1 % m ELSE (b * PowMod(b, e - 1, m)) % m

\* ---------------------------------------------------------------- results
Ok(v) == [exc |-> "none", v |-> v]
Throw(e) == [exc |-> e, v |-> NoBytes]

\* ------------------------------------------------ Symmetric (AES-256-CTR)
\* keystream chunk i of AES-256-CTR under key number k and IV number v
Keystream(k, v, i) == (5 * k + 3 * v + 7 * i + 1) % ChunkMod

CtrXor(data, key, iv) ==
    Bytes(data.len,
          [i \in 1 .. Len(data.val) |->
              Xor(data.val[i], Keystream(Num(key), Num(iv), i))])

\* Symmetric::encrypt; iv is the value RAND_bytes produced
encrypt(plaintext, key, iv) ==
    IF key.len # KEY_LEN THEN [exc |-> "std::invalid_argument", data |-> NoBytes, iv |-> NoBytes]
    ELSE [exc |-> "none", data |-> CtrXor(plaintext, key, iv), iv |-> iv]

\* a decryption whose keystream starts from a zero counter block whatever the
\* IV is; the round trips below must tell it from Symmetric::decrypt
decryptZeroCounter(ciphertext, key, iv) ==
    IF key.len # KEY_LEN THEN [exc |-> "std::invalid_argument", data |-> NoBytes]
    ELSE IF iv.len # NONCE_LEN THEN [exc |-> "std::invalid_argument", data |-> NoBytes]
    ELSE [exc |-> "none", data |-> CtrXor(ciphertext, key, Bytes(NONCE_LEN, <<0>>))]

\* Symmetric::decrypt
decrypt(ciphertext, key, iv) ==
    IF key.len # KEY_LEN THEN [exc |-> "std::invalid_argument", data |-> NoBytes]
    ELSE IF iv.len # NONCE_LEN THEN [exc |-> "std::invalid_argument", data |-> NoBytes]
    ELSE [exc |-> "none", data |-> CtrXor(ciphertext, key, iv)]

\* the j-th value of the random source in an operation whose draws are numbered r
Draw(r, j) == (r + j) % NumRand

\* 16 random bytes (IV or salt) and 32 random bytes (key) numbered r
RandomNonce(r) == Bytes(NONCE_LEN, <<r>>)
RandomKey(r) == Bytes(KEY_LEN, <<r>>)

\* ------------------------------------------------------------------ Base64
toBase64(data) ==
    IF data.len = 0 THEN <<>>
    ELSE <<B64Base + data.len>> \o [i \in 1 .. Len(data.val) |-> B64Base + data.val[i]]

fromBase64(b64) ==
    IF b64 = <<>> THEN Ok(NoBytes)
    ELSE IF \E i \in 1 .. Len(b64) : b64[i] < B64Base
         THEN Throw("std::invalid_argument")
    ELSE Ok(Bytes(b64[1] - B64Base, [i \in 1 .. (Len(b64) - 1) |-> b64[i + 1] - B64Base]))

\* ----------------------------------------------------------------- DerUtils
Nid == [x25519 |-> 1034, ed25519 |-> 1087]

wrapSpki(nid, raw) == Bytes(raw.len + (SPKI_LEN - RAW_PUB_LEN), <<nid>> \o raw.val)

looksLikeSpki44(der, nid) ==
    /\ der.len = SPKI_LEN
    /\ Len(der.val) >= 1
    /\ der.val[1] = nid

\* a parse that returns the first 32 bytes of the blob, DER header included
parseSpkiWithHeader(der, nid) ==
    IF ~looksLikeSpki44(der, nid) THEN Throw("std::runtime_error")
    ELSE Ok(Bytes(RAW_PUB_LEN, der.val))

parseSpki(der, nid) ==
    IF ~looksLikeSpki44(der, nid) THEN Throw("std::runtime_error")
    ELSE Ok(Bytes(RAW_PUB_LEN, Tail(der.val)))

parseX25519Spki(der) == parseSpki(der, Nid.x25519)
parseEd25519Spki(der) == parseSpki(der, Nid.ed25519)

\* ------------------------------------------------- key generation (libsodium, liboqs)
\* order-22 group generated by 5 modulo 23 stands for the X25519 group
Dh == [p |-> 23, g |-> 5]

\* crypto_scalarmult_base / crypto_scalarmult on raw 32-byte values
scalarmult_base(sk) == Bytes(RAW_PUB_LEN, <<PowMod(Dh.g, Num(sk), Dh.p)>>)
scalarmult(sk, pk) == Bytes(RAW_PUB_LEN, <<PowMod(Num(pk), Num(sk), Dh.p)>>)

\* public key number belonging to a signing seed
EdPubOf(seed) == (7 * seed + 3) % ChunkMod
DilPubOf(seed) == (9 * seed + 5) % ChunkMod
DIL_PK_LEN == 2592
DIL_SK_LEN == 4896
DIL_SIG_LEN == 4627

\* KeyBundle::KeyBundle(): fresh X25519, Ed25519 and Dilithium keypairs from seed r
KeyBundleNew(r) ==
    [x25519PubRaw |-> scalarmult_base(Bytes(KEY_LEN, <<r>>)),
     ed25519PubRaw |-> Bytes(RAW_PUB_LEN, <<EdPubOf(r + 1)>>),
     dilithiumPubRaw |-> Bytes(DIL_PK_LEN, <<DilPubOf(r + 2)>>),
     x25519PrivRaw |-> Bytes(KEY_LEN, <<r>>),
     ed25519PrivRaw |-> Bytes(ED_SK_LEN, <<r + 1, EdPubOf(r + 1)>>),
     dilithiumPrivRaw |-> Bytes(DIL_SK_LEN, <<r + 2>>)]

\* KeyBundle(x, e, d): public-only constructor
KeyBundlePublic(x, e, d) ==
    IF x.len # RAW_PUB_LEN \/ e.len # RAW_PUB_LEN \/ d.len = 0
    THEN [exc |-> "std::invalid_argument", kb |-> KeyBundleNew(1)]
    ELSE [exc |-> "none",
          kb |-> [x25519PubRaw |-> x, ed25519PubRaw |-> e, dilithiumPubRaw |-> d,
                  x25519PrivRaw |-> NoBytes, ed25519PrivRaw |-> NoBytes,
                  dilithiumPrivRaw |-> NoBytes]]

\* KeyBundle(x, e, d, xs, es, ds): full constructor
KeyBundleFull(x, e, d, xs, es, ds) ==
    IF \/ x.len # RAW_PUB_LEN \/ e.len # RAW_PUB_LEN \/ d.len = 0
       \/ xs.len # KEY_LEN \/ es.len # ED_SK_LEN \/ ds.len = 0
    THEN [exc |-> "std::invalid_argument", kb |-> KeyBundleNew(1)]
    ELSE [exc |-> "none",
          kb |-> [x25519PubRaw |-> x, ed25519PubRaw |-> e, dilithiumPubRaw |-> d,
                  x25519PrivRaw |-> xs, ed25519PrivRaw |-> es, dilithiumPrivRaw |-> ds]]

\* ------------------------------------------------------------- JSON text
\* dump of an object whose string values, in key order, are strs
RECURSIVE jsonDumpFrom(_, _)
jsonDumpFrom(strs, i) ==
    IF i > Len(strs) THEN <<Ch.close>>
    ELSE <<Ch.quote>> \o strs[i] \o <<Ch.quote>> \o jsonDumpFrom(strs, i + 1)

jsonDump(strs) == <<Ch.open>> \o jsonDumpFrom(strs, 1)

\* scanner of json::parse: outside a string (cur = <<>>, inStr FALSE) or inside one
RECURSIVE jsonScan(_, _, _, _, _)
jsonScan(t, i, inStr, cur, acc) ==
    IF i > Len(t) THEN [ok |-> FALSE, strs |-> <<>>]
    ELSE IF inStr
         THEN IF t[i] = Ch.quote THEN jsonScan(t, i + 1, FALSE, <<>>, Append(acc, cur))
              ELSE jsonScan(t, i + 1, TRUE, Append(cur, t[i]), acc)
    ELSE IF t[i] = Ch.quote THEN jsonScan(t, i + 1, TRUE, <<>>, acc)
    ELSE IF t[i] = Ch.close /\ i = Len(t) THEN [ok |-> TRUE, strs |-> acc]
    ELSE [ok |-> FALSE, strs |-> <<>>]

\* json::parse(text): the string values in key order, or json::parse_error
jsonParse(text) ==
    IF Len(text) < 2 \/ text[1] # Ch.open THEN [exc |-> "json::parse_error", strs |-> <<>>]
    ELSE LET r == jsonScan(text, 2, FALSE, <<>>, <<>>)
         IN IF r.ok THEN [exc |-> "none", strs |-> r.strs]
            ELSE [exc |-> "json::parse_error", strs |-> <<>>]

\* ------------------------------------------------ KeyBundle serialisation
\* toJsonPublic: values in the key order nlohmann::json dumps them
\* (postQuantum.identitySigningPublicKey, preQuantum.identityKemPublicKey,
\*  preQuantum.identitySigningPublicKey)
toJsonPublic(kb) ==
    << toBase64(kb.dilithiumPubRaw),
       toBase64(wrapSpki(Nid.x25519, kb.x25519PubRaw)),
       toBase64(wrapSpki(Nid.ed25519, kb.ed25519PubRaw)) >>

\* toJsonPrivate: postQuantum.{identitySigningPrivateKey, identitySigningPublicKey},
\* preQuantum.{identityKemPrivateKey, identityKemPublicKey,
\*             identitySigningPrivateKey, identitySigningPublicKey}
toJsonPrivate(kb) ==
    LET jpub == toJsonPublic(kb)
    IN << toBase64(kb.dilithiumPrivRaw), jpub[1],
          toBase64(kb.x25519PrivRaw), jpub[2],
          toBase64(kb.ed25519PrivRaw), jpub[3] >>

FirstExc(rs) ==
    IF \E i \in 1 .. Len(rs) : rs[i].exc # "none"
    THEN rs[CHOOSE i \in 1 .. Len(rs) :
                /\ rs[i].exc # "none"
                /\ \A k \in 1 .. (i - 1) : rs[k].exc = "none"].exc
    ELSE "none"

fromJsonPublic(text) ==
    LET j == jsonParse(text)
    IN IF j.exc # "none" THEN [exc |-> j.exc, kb |-> KeyBundleNew(1)]
       ELSE IF Len(j.strs) # 3 THEN [exc |-> "std::invalid_argument", kb |-> KeyBundleNew(1)]
       ELSE LET xDer == fromBase64(j.strs[2])
                eDer == fromBase64(j.strs[3])
            IN IF FirstExc(<<xDer, eDer>>) # "none"
               THEN [exc |-> FirstExc(<<xDer, eDer>>), kb |-> KeyBundleNew(1)]
               ELSE IF xDer.v.len # SPKI_LEN \/ eDer.v.len # SPKI_LEN
               THEN [exc |-> "std::invalid_argument", kb |-> KeyBundleNew(1)]
               ELSE LET xRaw == parseX25519Spki(xDer.v)
                        eRaw == parseEd25519Spki(eDer.v)
                        dRaw == fromBase64(j.strs[1])
                    IN IF FirstExc(<<xRaw, eRaw, dRaw>>) # "none"
                       THEN [exc |-> FirstExc(<<xRaw, eRaw, dRaw>>), kb |-> KeyBundleNew(1)]
                       ELSE KeyBundlePublic(xRaw.v, eRaw.v, dRaw.v)

\* fromJsonPrivate on the parsed object whose string values are strs
fromJsonPrivate(strs) ==
    IF Len(strs) # 6 THEN [exc |-> "std::invalid_argument", kb |-> KeyBundleNew(1)]
    ELSE LET xDer == fromBase64(strs[4])
             eDer == fromBase64(strs[6])
         IN IF FirstExc(<<xDer, eDer>>) # "none"
            THEN [exc |-> FirstExc(<<xDer, eDer>>), kb |-> KeyBundleNew(1)]
            ELSE IF xDer.v.len # SPKI_LEN \/ eDer.v.len # SPKI_LEN
            THEN [exc |-> "std::invalid_argument", kb |-> KeyBundleNew(1)]
            ELSE LET xPub == parseX25519Spki(xDer.v)
                     ePub == parseEd25519Spki(eDer.v)
                     dPub == fromBase64(strs[2])
                     xPriv == fromBase64(strs[3])
                     ePriv == fromBase64(strs[5])
                     dPriv == fromBase64(strs[1])
                     all == <<xPub, ePub, dPub, xPriv, ePriv, dPriv>>
                 IN IF FirstExc(all) # "none"
                    THEN [exc |-> FirstExc(all), kb |-> KeyBundleNew(1)]
                    ELSE KeyBundleFull(xPub.v, ePub.v, dPub.v, xPriv.v, ePriv.v, dPriv.v)

\* ------------------------------------------------------------ ClientStore
VARIABLES m_user, m_files, disk, locked, changes, last, hist, failObs,
          srv, peer, xlast, thr

\* the variables of the transfer and sharing side
xferVars == <<srv, peer, xlast>>

\* FileClientData::base64_encode / base64_decode
base64_encode(data) ==
    IF data.len = 0 THEN <<>>
    ELSE <<B64Base + data.len>> \o [i \in 1 .. Len(data.val) |-> B64Base + data.val[i]]

base64_decode(b64) ==
    IF b64 = <<>> THEN Ok(NoBytes)
    ELSE IF \E i \in 1 .. Len(b64) : b64[i] < B64Base
    THEN Throw("std::runtime_error")
    ELSE Ok(Bytes(b64[1] - B64Base, [i \in 1 .. (Len(b64) - 1) |-> b64[i + 1] - B64Base]))

\* FileClientData(): every buffer zero, file_id 0, empty filename
ZeroFcd ==
    [file_id |-> 0, filename |-> <<>>,
     fek |-> Bytes(KEY_LEN, <<0>>), file_nonce |-> Bytes(NONCE_LEN, <<0>>),
     mek |-> Bytes(KEY_LEN, <<0>>), metadata_nonce |-> Bytes(NONCE_LEN, <<0>>)]

\* FileClientData::to_json
fcd_to_json(f) ==
    [file_id |-> f.file_id, filename |-> f.filename,
     fek_b64 |-> base64_encode(f.fek),
     file_nonce_b64 |-> base64_encode(f.file_nonce),
     mek_b64 |-> base64_encode(f.mek),
     metadata_nonce_b64 |-> base64_encode(f.metadata_nonce)]

\* FileClientData::from_json: decodeField checks each decoded length
fcd_from_json(j) ==
    LET fek == base64_decode(j.fek_b64)
        fn == base64_decode(j.file_nonce_b64)
        mek == base64_decode(j.mek_b64)
        mn == base64_decode(j.metadata_nonce_b64)
    IN IF FirstExc(<<fek, fn, mek, mn>>) # "none"
       THEN [exc |-> FirstExc(<<fek, fn, mek, mn>>), fcd |-> ZeroFcd]
       ELSE IF \/ fek.v.len # KEY_LEN \/ fn.v.len # NONCE_LEN
               \/ mek.v.len # KEY_LEN \/ mn.v.len # NONCE_LEN
       THEN [exc |-> "std::runtime_error", fcd |-> ZeroFcd]
       ELSE [exc |-> "none",
             fcd |-> [file_id |-> j.file_id, filename |-> j.filename,
                      fek |-> fek.v, file_nonce |-> fn.v,
                      mek |-> mek.v, metadata_nonce |-> mn.v]]

\* ClientStore::getFileData, upsertFileData (the map update) on the map m_files,
\* held as the set of its values (one per file_id)
getFileData(files, file_id) ==
    IF \E f \in files : f.file_id = file_id
    THEN [has |-> TRUE, fcd |-> CHOOSE f \in files : f.file_id = file_id]
    ELSE [has |-> FALSE, fcd |-> ZeroFcd]

upsertFileData(files, fcd) == {f \in files : f.file_id # fcd.file_id} \cup {fcd}

\* std::optional<UserInfo> without a value
NoUser ==
    [has |-> FALSE, username |-> <<>>, salt |-> NoBytes,
     masterNonce |-> NoBytes, masterEnc |-> NoBytes,
     privNonce |-> NoBytes, privEnc |-> NoBytes,
     publicBundle |-> KeyBundleNew(1), masterKey |-> NoBytes,
     fullBundle |-> KeyBundleNew(1)]

NoDiskUser ==
    [has |-> FALSE, username |-> <<>>, salt |-> <<>>, master_nonce |-> <<>>,
     master_enc |-> <<>>, priv_nonce |-> <<>>, priv_enc |-> <<>>,
     public_keybundle |-> <<>>]

\* the vault file: whether it exists, how much of the dump it holds ("all",
\* "none": zero length, "part": cut inside the JSON text), and the JSON
NoDisk == [exists |-> FALSE, written |-> "all", user |-> NoDiskUser, files |-> {}]

\* crypto_pwhash (Argon2id): 32-byte key from the password and the first 16
\* bytes at salt.data(); ub is what a read past a shorter salt finds
derivePasswordKey(password, salt, ub) ==
    IF salt.len >= SALT_LEN
    THEN Bytes(KEY_LEN, <<(11 * password + 3 * Num(salt) + 2) % ChunkMod>>)
    ELSE Bytes(KEY_LEN, <<(11 * password + 3 * ub + 2) % ChunkMod>>)

\* a to_json that writes the decrypted master key, when it is held, in the
\* place of masterEnc
to_jsonPlainMaster(user, files) ==
    [exists |-> TRUE, written |-> "all",
     user |-> IF user.has
              THEN [has |-> TRUE,
                    username |-> user.username,
                    salt |-> base64_encode(user.salt),
                    master_nonce |-> base64_encode(user.masterNonce),
                    master_enc |-> base64_encode(IF user.masterKey.len > 0
                                                 THEN user.masterKey ELSE user.masterEnc),
                    priv_nonce |-> base64_encode(user.privNonce),
                    priv_enc |-> base64_encode(user.privEnc),
                    public_keybundle |-> toJsonPublic(user.publicBundle)]
              ELSE NoDiskUser,
     files |-> {fcd_to_json(f) : f \in files}]

\* ClientStore::to_json
to_json(user, files) ==
    [exists |-> TRUE, written |-> "all",
     user |-> IF user.has
              THEN [has |-> TRUE,
                    username |-> user.username,
                    salt |-> base64_encode(user.salt),
                    master_nonce |-> base64_encode(user.masterNonce),
                    master_enc |-> base64_encode(user.masterEnc),
                    priv_nonce |-> base64_encode(user.privNonce),
                    priv_enc |-> base64_encode(user.privEnc),
                    public_keybundle |-> toJsonPublic(user.publicBundle)]
              ELSE NoDiskUser,
     files |-> {fcd_to_json(f) : f \in files}]

\* the files array of the vault file parsed entry by entry; an entry that
\* does not parse throws out of from_json (entries written by to_json parse)
filesFromJson(arr) ==
    IF \A fj \in arr : fcd_from_json(fj).exc = "none"
    THEN {fcd_from_json(fj).fcd : fj \in arr}
    ELSE {}

\* ClientStore::from_json: the store contents after parsing j; fresh is the
\* seed of the key pairs the default-constructed UserInfo generates
from_json(j, fresh) ==
    IF ~j.user.has THEN [user |-> NoUser, files |-> filesFromJson(j.files)]
    ELSE LET salt == base64_decode(j.user.salt)
             mn == base64_decode(j.user.master_nonce)
             me == base64_decode(j.user.master_enc)
             pn == base64_decode(j.user.priv_nonce)
             pe == base64_decode(j.user.priv_enc)
             pb == fromJsonPublic(jsonDump(j.user.public_keybundle))
         IN IF FirstExc(<<salt, mn, me, pn, pe>>) # "none" \/ pb.exc # "none"
            THEN [user |-> NoUser, files |-> {}]
            ELSE [user |-> [has |-> TRUE, username |-> j.user.username,
                            salt |-> salt.v, masterNonce |-> mn.v, masterEnc |-> me.v,
                            privNonce |-> pn.v, privEnc |-> pe.v,
                            publicBundle |-> pb.kb, masterKey |-> NoBytes,
                            fullBundle |-> KeyBundleNew(fresh)],
                  files |-> filesFromJson(j.files)]

\* ClientStore::setUserWithPassword: the UserInfo it builds
NewUserInfo(username, password, fullKb, r) ==
    LET salt == RandomNonce(Draw(r, 0))
        K_pwd == derivePasswordKey(password, salt, 0)
        MEK == RandomKey(Draw(r, 1))
        c1 == encrypt(MEK, K_pwd, RandomNonce(Draw(r, 2)))
        privPlain == Bytes(Len(jsonDump(toJsonPrivate(fullKb))),
                           jsonDump(toJsonPrivate(fullKb)))
        c2 == encrypt(privPlain, MEK, RandomNonce(Draw(r, 3)))
    IN [has |-> TRUE, username |-> username, salt |-> salt,
        masterNonce |-> c1.iv, masterEnc |-> c1.data,
        privNonce |-> c2.iv, privEnc |-> c2.data,
        publicBundle |-> fullKb, masterKey |-> MEK, fullBundle |-> fullKb]

\* outcome records of the store operations
Returned(ret, err, user) == [kind |-> "return", ret |-> ret, err |-> err, exc |-> "none", user |-> user]
Threw(exc, user) == [kind |-> "throw", ret |-> FALSE, err |-> "", exc |-> exc, user |-> user]

\* a login that stores the master key as soon as it is decrypted, before
\* the private bundle is opened
loginAndDecryptEager(user, username, password, ub) ==
    IF ~user.has THEN Returned(FALSE, "No stored user found", user)
    ELSE IF user.username # username THEN Returned(FALSE, "Username mismatch", user)
    ELSE LET K_pwd == derivePasswordKey(password, user.salt, ub)
             plainMEK == decrypt(user.masterEnc, K_pwd, user.masterNonce)
             MEK == plainMEK.data
             early == [user EXCEPT !.masterKey = MEK]
             privPlain == decrypt(user.privEnc, MEK, user.privNonce)
             j == jsonParse(privPlain.data.val)
             fullKb == fromJsonPrivate(j.strs)
         IN IF plainMEK.exc # "none" THEN Threw(plainMEK.exc, user)
            ELSE IF MEK.len = 0
            THEN Returned(FALSE, "Decrypting MEK failed (wrong password or corrupted data)", user)
            ELSE IF privPlain.exc # "none" THEN Threw(privPlain.exc, early)
            ELSE IF privPlain.data.len = 0
            THEN Returned(FALSE, "Decrypting private KeyBundle failed", early)
            ELSE IF j.exc # "none" THEN Threw(j.exc, early)
            ELSE IF fullKb.exc # "none" THEN Threw(fullKb.exc, early)
            ELSE Returned(TRUE, "", [early EXCEPT !.fullBundle = fullKb.kb])

\* ClientStore::loginAndDecrypt
loginAndDecrypt(user, username, password, ub) ==
    IF ~user.has THEN Returned(FALSE, "No stored user found", user)
    ELSE IF user.username # username THEN Returned(FALSE, "Username mismatch", user)
    ELSE LET K_pwd == derivePasswordKey(password, user.salt, ub)
             plainMEK == decrypt(user.masterEnc, K_pwd, user.masterNonce)
             MEK == plainMEK.data
             privPlain == decrypt(user.privEnc, MEK, user.privNonce)
             j == jsonParse(privPlain.data.val)
             fullKb == fromJsonPrivate(j.strs)
         IN IF plainMEK.exc # "none" THEN Threw(plainMEK.exc, user)
            ELSE IF MEK.len = 0
            THEN Returned(FALSE, "Decrypting MEK failed (wrong password or corrupted data)", user)
            ELSE IF privPlain.exc # "none" THEN Threw(privPlain.exc, user)
            ELSE IF privPlain.data.len = 0
            THEN Returned(FALSE, "Decrypting private KeyBundle failed", user)
            ELSE IF j.exc # "none" THEN Threw(j.exc, user)
            ELSE IF fullKb.exc # "none" THEN Threw(fullKb.exc, user)
            ELSE Returned(TRUE, "", [user EXCEPT !.masterKey = MEK, !.fullBundle = fullKb.kb])

\* ClientStore::changePassword up to, not including, the save() at its end
changePassword(user, oldPassword, newPassword, ub, r) ==
    IF ~user.has THEN Returned(FALSE, "No user loaded", user)
    ELSE LET K_old == derivePasswordKey(oldPassword, user.salt, ub)
             plainMEK == decrypt(user.masterEnc, K_old, user.masterNonce)
             MEK == plainMEK.data
             newSalt == RandomNonce(Draw(r, 0))
             K_new == derivePasswordKey(newPassword, newSalt, 0)
             c == encrypt(MEK, K_new, RandomNonce(Draw(r, 1)))
         IN IF plainMEK.exc # "none" THEN Threw(plainMEK.exc, user)
            ELSE IF MEK.len = 0
            THEN Returned(FALSE, "Old password is incorrect (unable to decrypt MEK)", user)
            ELSE Returned(TRUE, "", [user EXCEPT !.salt = newSalt,
                                                 !.masterNonce = c.iv,
                                                 !.masterEnc = c.data])

\* ----------------------------------------------------- history variables
\* hist.mem / hist.disk: what is known about the record held in memory / on
\* disk: the password it was last wrapped under by a correct operation
\* (0: none), the password before a correct change (0: none), the seed of
\* the registered identity, chg: a changePassword(prev, pwd) on this record
\* returned true, and why: "none" no record, "ok" written by correct
\* operations only, "tampered" altered on disk outside the program,
\* "rewrapped" re-wrapped by changePassword from a wrong old password;
\* mk: the master key setUserWithPassword generated for the record
NoHist ==
    [pwd |-> 0, prev |-> 0, seed |-> 0, chg |-> FALSE, why |-> "none", mk |-> NoBytes]

NoLast ==
    [op |-> "init", kind |-> "return", ret |-> FALSE, err |-> "", exc |-> "none",
     name |-> <<>>, pwd |-> 0, pwd2 |-> 0, pre |-> NoHist, hadUser |-> FALSE,
     nameOk |-> FALSE, wasIn |-> FALSE, recSame |-> TRUE, diskSame |-> TRUE,
     restSame |-> TRUE]

\* everything of a UserInfo that is not salt, masterNonce or masterEnc
Rest(user) ==
    <<user.has, user.username, user.privNonce, user.privEnc, user.publicBundle,
      user.masterKey, user.fullBundle>>

\* ClientStore::getUser: a copy of m_user
getUser(user) == user

\* a user is logged in when the decrypted master key is held in memory
LoggedIn(user) == user.has /\ user.masterKey.len > 0

\* the five stored fields of the VaultRecord
Record(user) ==
    <<user.salt, user.masterNonce, user.masterEnc, user.privNonce, user.privEnc>>

\* --------------------------------------------------------------- threads
\* the threads that call into the one ClientStore (the UI thread and the
\* pool threads of QtConcurrent::run)
Threads == 1 .. NumThreads

\* a thread's call: where it stands, the operation, the JSON save() built,
\* the FileClientData* it got from getFileData (ref: the file_id, seen: the
\* entry when it was returned, dangling: the map node was destroyed since),
\* and what it read through the pointer afterwards
NoCall ==
    [pc |-> "idle", op |-> "", snap |-> NoDisk, ref |-> 0, seen |-> ZeroFcd,
     dangling |-> FALSE, used |-> ZeroFcd, how |-> ""]

\* mutex: the thread that owns m_mutex (0: none); writing: the threads
\* between opening and flushing the vault file; calls, returned: calls
\* begun and calls that came back to their caller
NoThreads ==
    [mutex |-> 0, writing |-> {}, calls |-> 0, returned |-> 0,
     of |-> [t \in Threads |-> NoCall]]

\* the pointers into m_files that erasing the nodes of ids invalidates
Invalidated(th, ids) ==
    [th EXCEPT !.of = [t \in Threads |->
        IF th.of[t].pc = "holding" /\ th.of[t].ref \in ids
        THEN [th.of[t] EXCEPT !.dangling = TRUE] ELSE th.of[t]]]

vaultVars == <<m_user, m_files, disk, locked, changes, last, hist, failObs, thr>>

VaultInit ==
    /\ thr = NoThreads
    /\ m_user = NoUser
    /\ m_files = {}
    /\ disk = NoDisk
    /\ locked = FALSE
    /\ changes = 0
    /\ last = NoLast
    /\ hist = [mem |-> NoHist, disk |-> NoHist]
    /\ failObs = {}

\* RegisterHandler::doRegister after the server answered 201:
\* KeyBundle kb; store->setUserWithPassword(username, password, kb)
Register(username, password, seed, r) ==
    LET u == NewUserInfo(username, password, KeyBundleNew(seed), r)
        g == [pwd |-> password, prev |-> 0, seed |-> seed, chg |-> FALSE, why |-> "ok",
              mk |-> u.masterKey]
    IN /\ ~locked
       /\ m_user' = u
       /\ disk' = to_json(u, m_files)
       /\ hist' = [mem |-> g, disk |-> g]
       /\ failObs' = {}
       /\ last' = [NoLast EXCEPT !.op = "register", !.ret = TRUE, !.name = username,
                                  !.pwd = password, !.pre = hist.mem,
                                  !.hadUser = m_user.has, !.wasIn = LoggedIn(m_user),
                                  !.recSame = FALSE, !.diskSame = FALSE]
       /\ changes' = 0
       /\ UNCHANGED <<m_files, locked>>
       /\ UNCHANGED <<xferVars, thr>>

\* ClientStore::save
Save ==
    /\ ~locked
    /\ disk' = to_json(m_user, m_files)
    /\ hist' = [hist EXCEPT !.disk = hist.mem]
    /\ last' = [NoLast EXCEPT !.op = "save", !.ret = TRUE, !.pre = hist.mem,
                               !.hadUser = m_user.has, !.wasIn = LoggedIn(m_user),
                               !.diskSame = (disk' = disk)]
    /\ UNCHANGED <<m_user, m_files, locked, changes, failObs>>
    /\ UNCHANGED <<xferVars, thr>>

\* where a save() that does not complete leaves the file: opened with
\* std::ios::trunc and nothing written, or part of the dump written
SaveCuts == {"none", "part"}

\* ClientStore::save cut short after the ofstream was opened: the write
\* fails (save() logs and returns) or the process dies there and a new
\* ClientStore is constructed on the path
SaveInterrupted(cut, crash) ==
    /\ ~locked
    /\ disk' = [NoDisk EXCEPT !.exists = TRUE, !.written = cut]
    /\ m_user' = IF crash THEN NoUser ELSE m_user
    /\ m_files' = IF crash THEN {} ELSE m_files
    /\ hist' = [mem |-> IF crash THEN NoHist ELSE hist.mem, disk |-> NoHist]
    /\ last' = [NoLast EXCEPT !.op = "saveInterrupted", !.pre = hist.mem,
                               !.kind = IF crash THEN "crash" ELSE "return",
                               !.hadUser = m_user.has, !.wasIn = LoggedIn(m_user),
                               !.recSame = (Record(m_user') = Record(m_user)),
                               !.diskSame = (disk' = disk)]
    /\ UNCHANGED <<locked, changes, failObs>>
    /\ UNCHANGED <<xferVars, thr>>

\* ClientStore::load: a missing or zero-length file and a parse error
\* return before from_json
Load(fresh) ==
    LET r == from_json(disk, fresh)
    IN /\ ~locked
       /\ thr.mutex = 0
       /\ IF disk.exists /\ disk.written = "all"
          THEN /\ m_user' = r.user
               /\ m_files' = r.files
               /\ thr' = Invalidated(thr, {f.file_id : f \in m_files})
               /\ hist' = [hist EXCEPT !.mem = IF r.user.has THEN hist.disk ELSE NoHist]
          ELSE UNCHANGED <<m_user, m_files, hist, thr>>
       /\ last' = [NoLast EXCEPT !.op = "load", !.ret = TRUE, !.pre = hist.mem,
                                  !.hadUser = m_user.has, !.wasIn = LoggedIn(m_user),
                                  !.recSame = (Record(m_user') = Record(m_user))]
       /\ UNCHANGED <<disk, locked, changes, failObs>>
       /\ UNCHANGED xferVars

\* the process ends without running ~ClientStore and a new ClientStore is
\* constructed on the same path
NewStore ==
    /\ m_user' = NoUser
    /\ m_files' = {}
    /\ locked' = FALSE
    /\ hist' = [hist EXCEPT !.mem = NoHist]
    /\ last' = [NoLast EXCEPT !.op = "new", !.ret = TRUE, !.pre = hist.mem,
                               !.hadUser = m_user.has, !.wasIn = LoggedIn(m_user)]
    /\ UNCHANGED <<disk, changes, failObs>>
    /\ UNCHANGED <<xferVars, thr>>

\* ClientStore::~ClientStore (save), then a new ClientStore on the same path
Destroy ==
    /\ ~locked
    /\ disk' = to_json(m_user, m_files)
    /\ m_user' = NoUser
    /\ m_files' = {}
    /\ hist' = [mem |-> NoHist, disk |-> hist.mem]
    /\ last' = [NoLast EXCEPT !.op = "destroy", !.ret = TRUE, !.pre = hist.mem,
                               !.hadUser = m_user.has, !.wasIn = LoggedIn(m_user),
                               !.diskSame = (disk' = disk)]
    /\ UNCHANGED <<locked, changes, failObs>>
    /\ UNCHANGED <<xferVars, thr>>

\* ClientStore::clearUser
ClearUser ==
    /\ ~locked
    /\ m_user' = NoUser
    /\ hist' = [hist EXCEPT !.mem = NoHist]
    /\ last' = [NoLast EXCEPT !.op = "clearUser", !.ret = TRUE, !.pre = hist.mem,
                               !.hadUser = m_user.has, !.wasIn = LoggedIn(m_user),
                               !.recSame = (Record(m_user') = Record(m_user))]
    /\ UNCHANGED <<m_files, disk, locked, changes, failObs>>
    /\ UNCHANGED <<xferVars, thr>>

\* values a read past the end of a short salt can find
UbChoices(user) == IF user.has /\ user.salt.len < SALT_LEN THEN RandVals ELSE {0}

\* what the caller of a store operation observes
Obs(r) == [kind |-> r.kind, ret |-> r.ret, err |-> r.err, exc |-> r.exc]

\* LoginHandler::doValidateLogin: m_store->loginAndDecrypt(username, password, err)
Login(username, password, ub) ==
    LET r == loginAndDecrypt(m_user, username, password, ub)
        g == hist.mem
        caused == /\ m_user.has
                  /\ m_user.username = username
                  /\ \/ g.why = "tampered"
                     \/ g.why = "ok" /\ password # g.pwd
    IN /\ ~locked
       /\ m_user' = r.user
       /\ last' = [NoLast EXCEPT !.op = "login", !.kind = r.kind, !.ret = r.ret,
                                  !.err = r.err, !.exc = r.exc, !.name = username,
                                  !.pwd = password, !.pre = g, !.hadUser = m_user.has,
                                  !.nameOk = (m_user.has /\ m_user.username = username),
                                  !.wasIn = LoggedIn(m_user),
                                  !.recSame = (Record(m_user') = Record(m_user)),
                                  !.restSame = (Rest(m_user') = Rest(m_user))]
       /\ failObs' = IF caused /\ ~(r.kind = "return" /\ r.ret)
                     THEN failObs \cup {Obs(r)} ELSE failObs
       /\ UNCHANGED <<m_files, disk, locked, changes, hist>>
       /\ UNCHANGED <<xferVars, thr>>

\* outcomes of save() locking m_mutex while changePassword still holds it
\* (std::mutex is not recursive: the behaviour is undefined)
RelockOutcomes == {"proceed", "hang", "throw"}

\* PasswordChangeHandler::doChange: m_store->changePassword(...)
ChangePassword(oldPassword, newPassword, ub, rnd, relock) ==
    LET r == changePassword(m_user, oldPassword, newPassword, ub, rnd)
        g == hist.mem
        rewrote == r.kind = "return" /\ r.ret
        g2 == IF ~rewrote THEN g
              ELSE IF g.why = "ok" /\ oldPassword = g.pwd
              THEN [g EXCEPT !.pwd = newPassword,
                             !.prev = IF newPassword # oldPassword THEN oldPassword ELSE 0,
                             !.chg = (relock = "proceed" /\ newPassword # oldPassword)]
              ELSE IF g.why = "tampered" THEN g
              ELSE [g EXCEPT !.pwd = 0, !.prev = 0, !.chg = FALSE, !.why = "rewrapped"]
        saved == rewrote /\ relock = "proceed"
    IN /\ ~locked
       /\ changes < MaxChanges
       /\ rewrote \/ relock = "proceed"
       /\ m_user' = r.user
       /\ changes' = IF rewrote THEN changes + 1 ELSE changes
       /\ disk' = IF saved THEN to_json(r.user, m_files) ELSE disk
       /\ locked' = (rewrote /\ relock = "hang")
       /\ hist' = [mem |-> g2, disk |-> IF saved THEN g2 ELSE hist.disk]
       /\ last' = [NoLast EXCEPT
                      !.op = "changePassword",
                      !.kind = IF rewrote /\ relock # "proceed" THEN relock ELSE r.kind,
                      !.ret = IF rewrote /\ relock # "proceed" THEN FALSE ELSE r.ret,
                      !.err = r.err,
                      !.exc = IF rewrote /\ relock = "throw" THEN "std::system_error" ELSE r.exc,
                      !.pwd = oldPassword, !.pwd2 = newPassword, !.pre = g,
                      !.hadUser = m_user.has, !.wasIn = LoggedIn(m_user),
                      !.recSame = (Record(m_user') = Record(m_user)),
                      !.diskSame = (disk' = disk),
                      !.restSame = (Rest(m_user') = Rest(m_user))]
       /\ UNCHANGED <<m_files, failObs>>
       /\ UNCHANGED <<xferVars, thr>>

\* alterations of a stored field made outside the program
TamperKinds == {"flip", "flipLate", "empty", "short"}
TamperFields == {"salt", "master_nonce", "master_enc", "priv_nonce", "priv_enc"}

Altered(b, kind) ==
    CASE kind = "flip" -> Bytes(b.len, [b.val EXCEPT ![1] = Xor(@, 1)])
      [] kind = "flipLate" -> Bytes(b.len, [b.val EXCEPT ![Len(b.val) - 2] = Xor(@, 1)])
      [] kind = "empty" -> NoBytes
      [] kind = "short" -> Bytes(b.len - 1, b.val)

\* the vault file is edited on disk: one stored field is altered
Tamper(field, kind) ==
    LET old == base64_decode(disk.user[field]).v
    IN /\ disk.exists
       /\ disk.user.has
       /\ hist.disk.why = "ok"
       /\ kind = "flipLate" => field = "priv_enc"
       /\ disk' = [disk EXCEPT !.user[field] = base64_encode(Altered(old, kind))]
       /\ hist' = [hist EXCEPT !.disk.why = "tampered"]
       /\ last' = [NoLast EXCEPT !.op = "tamper", !.pre = hist.mem,
                                  !.hadUser = m_user.has, !.wasIn = LoggedIn(m_user),
                                  !.diskSame = FALSE]
       /\ UNCHANGED <<m_user, m_files, locked, changes, failObs>>
       /\ UNCHANGED <<xferVars, thr>>

\* ============================================ transfer and sharing side
\* std::string <-> std::vector<uint8_t>: the same elements, with their count
TextBytes(t) == Bytes(Len(t), t)

\* ------------------------------------------------------------- Hash, hex
SHA256_LEN == 32

\* Hash::sha256: a 32-byte digest that determines the input (no collisions)
sha256(data) == Bytes(SHA256_LEN, <<data.len>> \o data.val)

\* toHex (filedownloadhandler.cpp) and bytesToHex (downloadfilehandler.cpp):
\* lower-case hexadecimal text, one character of the hex alphabet per chunk
toHex(data) == [i \in 1 .. Len(data.val) |-> HexBase + data.val[i]]
bytesToHex(data) == [i \in 1 .. Len(data.val) |-> HexBase + data.val[i]]

\* ---------------------------------------------------------------- Signers
\* A signature is the signer's public key number followed by the message:
\* it verifies under that public key and that message only.
NoSigner == [exc |-> "none", sk |-> NoBytes, pk |-> NoBytes]

\* Signer_Ed::loadPrivateKey: 64 bytes seed||pub, _pk derived from the seed
Signer_Ed_loadPrivateKey(rawSk) ==
    IF rawSk.len # ED_SK_LEN THEN [NoSigner EXCEPT !.exc = "std::runtime_error"]
    ELSE [exc |-> "none", sk |-> rawSk, pk |-> Bytes(RAW_PUB_LEN, <<EdPubOf(Num(rawSk))>>)]

\* Signer_Ed::loadPublicKey: declared in signer_ed.h, defined nowhere in the
\* sources; taken to store the raw public key the verifier is given
Signer_Ed_loadPublicKey(rawPk) == [exc |-> "none", sk |-> NoBytes, pk |-> rawPk]

\* Signer_Ed::sign (crypto_sign_detached with _sk)
Signer_Ed_sign(signer, msg) ==
    Bytes(ED_SIG_LEN, <<EdPubOf(Num(signer.sk))>> \o msg.val)

\* Signer_Ed::verify (crypto_sign_verify_detached with _pk)
Signer_Ed_verify(signer, msg, signature) ==
    /\ signature.len = ED_SIG_LEN
    /\ signer.pk.len = RAW_PUB_LEN
    /\ signature.val = <<Num(signer.pk)>> \o msg.val

\* Signer_Dilithium::loadPrivateKey
Signer_Dilithium_loadPrivateKey(rawSk) ==
    IF rawSk.len # DIL_SK_LEN THEN [NoSigner EXCEPT !.exc = "std::runtime_error"]
    ELSE [exc |-> "none", sk |-> rawSk, pk |-> NoBytes]

\* Signer_Dilithium::loadPublicKey: declared in signer_dilithium.h, defined
\* nowhere in the sources; taken to store the raw public key
Signer_Dilithium_loadPublicKey(rawPk) == [exc |-> "none", sk |-> NoBytes, pk |-> rawPk]

\* Signer_Dilithium::sign (OQS_SIG_sign with _sk)
Signer_Dilithium_sign(signer, msg) ==
    Bytes(DIL_SIG_LEN, <<DilPubOf(Num(signer.sk))>> \o msg.val)

\* Signer_Dilithium::verify (OQS_SIG_verify with _pk)
Signer_Dilithium_verify(signer, msg, signature) ==
    /\ signature.len = DIL_SIG_LEN
    /\ signer.pk.len = DIL_PK_LEN
    /\ signature.val = <<Num(signer.pk)>> \o msg.val

\* KeyBundle getters
getEd25519PrivateKeyBase64(kb) == toBase64(kb.ed25519PrivRaw)
getDilithiumPrivateKeyBase64(kb) == toBase64(kb.dilithiumPrivRaw)
getX25519PrivateKeyBase64(kb) == toBase64(kb.x25519PrivRaw)
getEd25519PublicRaw(kb) == kb.ed25519PubRaw
getDilithiumPublicRaw(kb) == kb.dilithiumPubRaw

\* getEd25519Pub, getDilithiumPub, getX25519Pub: called by the handlers,
\* declared nowhere in keybundle.h; taken to return the raw public keys
getEd25519Pub(kb) == kb.ed25519PubRaw
getDilithiumPub(kb) == kb.dilithiumPubRaw
getX25519Pub(kb) == kb.x25519PubRaw

\* ----------------------------------------------------- FileUploadHandler
\* FileClientData(true): FEK, MEK and both nonces from randombytes_buf
RandomFcd(r) ==
    [ZeroFcd EXCEPT !.fek = RandomKey(Draw(r, 0)),
                    !.mek = RandomKey(Draw(r, 1)),
                    !.file_nonce = RandomNonce(Draw(r, 2)),
                    !.metadata_nonce = RandomNonce(Draw(r, 3))]

\* FileUploadHandler::buildSignatureInput
buildSignatureInput(uname, fileB64, metaB64) ==
    uname \o <<Ch.bar>> \o fileB64 \o <<Ch.bar>> \o metaB64

\* the metadata object {"filename": ..., "filesize": ...} dumped; the size
\* is written as one character
metaDump(filename, filesize) == jsonDump(<<filename, <<filesize>>>>)

\* an envelope left with the nonces its constructor drew
keepNonces(fcd0, ivFile, ivMeta) == fcd0

\* processSingleFile steps 3 and 5: file_nonce and metadata_nonce are
\* overwritten with the IVs Symmetric::encrypt returned
copyNonces(fcd0, ivFile, ivMeta) ==
    [fcd0 EXCEPT !.file_nonce = ivFile, !.metadata_nonce = ivMeta]

NoUpload ==
    [sent |-> FALSE, body |-> <<>>, fcd |-> ZeroFcd, sigInput |-> <<>>,
     plaintext |-> NoBytes, filename |-> <<>>]

\* FileUploadHandler::processSingleFile up to the HTTP POST: the request
\* body (keys in the order nlohmann::json dumps them), the FileClientData
\* and the string that was signed.  m_username and m_keybundle are the
\* logged-in user's name and full bundle the handler copied when main()
\* created it after login; the IVs come from Symmetric::encrypt (RAND_bytes,
\* draws numbered from r + 1)
uploadRequest(m_username, m_keybundle, plaintext, filename, r) ==
    LET fcd0 == RandomFcd(r)
        encFile == encrypt(plaintext, fcd0.fek, RandomNonce(Draw(r + 1, 0)))
        metaPlain == metaDump(filename, plaintext.len)
        encMeta == encrypt(TextBytes(metaPlain), fcd0.mek, RandomNonce(Draw(r + 1, 1)))
        fcd == copyNonces(fcd0, encFile.iv, encMeta.iv)
        fileB64 == base64_encode(encFile.data)
        metaB64 == base64_encode(encMeta.data)
        sigInput == buildSignatureInput(m_username, fileB64, metaB64)
        msgBytes == TextBytes(sigInput)
        edPrivRaw == base64_decode(getEd25519PrivateKeyBase64(m_keybundle))
        signerEd == Signer_Ed_loadPrivateKey(edPrivRaw.v)
        edSigB64 == base64_encode(Signer_Ed_sign(signerEd, msgBytes))
        pqPrivRaw == base64_decode(getDilithiumPrivateKeyBase64(m_keybundle))
        signerPQ == Signer_Dilithium_loadPrivateKey(pqPrivRaw.v)
        pqSigB64 == base64_encode(Signer_Dilithium_sign(signerPQ, msgBytes))
    IN IF plaintext.len = 0 THEN NoUpload
       ELSE IF encFile.exc # "none" \/ encMeta.exc # "none" THEN NoUpload
       ELSE IF edPrivRaw.exc # "none" \/ edPrivRaw.v.len # ED_SK_LEN THEN NoUpload
       ELSE IF pqPrivRaw.exc # "none" \/ pqPrivRaw.v.len # DIL_SK_LEN THEN NoUpload
       ELSE [sent |-> TRUE,
             body |-> << <<"file_content", fileB64>>,
                         <<"metadata", metaB64>>,
                         <<"post_quantum_signature", pqSigB64>>,
                         <<"pre_quantum_signature", edSigB64>> >>,
             fcd |-> fcd, sigInput |-> sigInput,
             plaintext |-> plaintext, filename |-> filename]

\* the value of key k in a dumped object
Field(body, k) == body[CHOOSE i \in 1 .. Len(body) : body[i][1] = k][2]

\* ------------------------------------------------- server responses (input)
\* a JSON field that is a string, or a {"type":"Buffer","data":[...]} object
StrField(s) == [form |-> "string", str |-> s, data |-> NoBytes]
BufField(b) == [form |-> "buffer", str |-> <<>>, data |-> b]

\* the two signatures over owner|hex(sha256(cFile))|hex(sha256(cMeta)) made
\* with the private keys of identity kb
DigestSignatures(owner, kb, cFile, cMeta) ==
    LET msg == TextBytes(owner \o <<Ch.bar>> \o toHex(sha256(cFile))
                               \o <<Ch.bar>> \o toHex(sha256(cMeta)))
    IN [ed |-> base64_encode(Signer_Ed_sign(
                   Signer_Ed_loadPrivateKey(kb.ed25519PrivRaw), msg)),
        pq |-> base64_encode(Signer_Dilithium_sign(
                   Signer_Dilithium_loadPrivateKey(kb.dilithiumPrivRaw), msg))]

\* what the server can answer to /api/fs/download for stored file F:
\* asStored     the uploaded body, unmodified
\* digestSigned the uploaded ciphertexts with both signatures over the digests
\* edOnly       only the Ed25519 signature is over the digests
\* pqOnly       only the Dilithium signature is over the digests
\* fileAltered  digest signatures of the upload, file ciphertext altered
\* metaAltered  digest signatures of the upload, metadata ciphertext altered
\* notOwner     is_owner false;  notFound   status 404
\* noOwnerId    the owner is named by owner_username only
DownloadScenarios ==
    {"asStored", "digestSigned", "edOnly", "pqOnly", "fileAltered", "metaAltered",
     "notOwner", "notFound", "noOwnerId"}

MetaForms == {"string", "buffer"}

DownloadResponse(F, kb, scenario, form) ==
    LET cFile == base64_decode(F.file_content).v
        cMeta == base64_decode(F.metadata).v
        dig == DigestSignatures(F.owner, kb, cFile, cMeta)
        cFile2 == IF scenario = "fileAltered" THEN Altered(cFile, "flip") ELSE cFile
        cMeta2 == IF scenario = "metaAltered" THEN Altered(cMeta, "flip") ELSE cMeta
    IN [statusCode |-> IF scenario = "notFound" THEN 404 ELSE 200,
        file_content |-> StrField(base64_encode(cFile2)),
        metadata |-> IF form = "string" THEN StrField(base64_encode(cMeta2))
                     ELSE BufField(cMeta2),
        pre_quantum_signature |->
            IF scenario \in {"asStored", "pqOnly"} THEN F.pre_quantum_signature ELSE dig.ed,
        post_quantum_signature |->
            IF scenario \in {"asStored", "edOnly"} THEN F.post_quantum_signature ELSE dig.pq,
        owner_username |-> F.owner,
        has_owner_user_id |-> scenario # "noOwnerId",
        is_owner |-> scenario # "notOwner"]

\* ------------------------------------------------------ download handlers
NoWrite == [has |-> FALSE, name |-> <<>>, data |-> NoBytes]

\* how a handler run ended: status and text shown to the caller, whether
\* both signatures were verified successfully, which ciphertexts were
\* decrypted, and the file written
Out(status, text, verified, decrypted, wrote) ==
    [status |-> status, text |-> text, verified |-> verified,
     decrypted |-> decrypted, wrote |-> wrote]

\* fieldToBase64 (filedownloadhandler.cpp)
fieldToBase64(jField) ==
    IF jField.form = "string" THEN jField.str ELSE base64_encode(jField.data)

VerifyOk == [exc |-> "none", ok |-> TRUE, err |-> ""]
VerifyFail(e) == [exc |-> "none", ok |-> FALSE, err |-> e]
VerifyThrew(x) == [exc |-> x, ok |-> FALSE, err |-> ""]

\* a verification that accepts on the Ed25519 signature alone
verifyEd25519Only(username, fileB64, metaB64, edSigB64, pqSigB64, pubBundle) ==
    LET fileCipher == base64_decode(fileB64)
        metaCipher == base64_decode(metaB64)
        canonical == username \o <<Ch.bar>> \o toHex(sha256(fileCipher.v))
                              \o <<Ch.bar>> \o toHex(sha256(metaCipher.v))
        edSig == base64_decode(edSigB64)
        verifierEd == Signer_Ed_loadPublicKey(getEd25519Pub(pubBundle))
    IN IF fileCipher.exc # "none" THEN VerifyThrew(fileCipher.exc)
       ELSE IF metaCipher.exc # "none" THEN VerifyThrew(metaCipher.exc)
       ELSE IF edSig.exc # "none" THEN VerifyThrew(edSig.exc)
       ELSE IF ~Signer_Ed_verify(verifierEd, TextBytes(canonical), edSig.v)
       THEN VerifyFail("Ed25519 failed")
       ELSE VerifyOk

\* FileDownloadHandler::verifySignatures
verifySignatures(username, fileB64, metaB64, edSigB64, pqSigB64, pubBundle) ==
    LET fileCipher == base64_decode(fileB64)
        metaCipher == base64_decode(metaB64)
        canonical == username \o <<Ch.bar>> \o toHex(sha256(fileCipher.v))
                              \o <<Ch.bar>> \o toHex(sha256(metaCipher.v))
        msgBytes == TextBytes(canonical)
        edSig == base64_decode(edSigB64)
        verifierEd == Signer_Ed_loadPublicKey(getEd25519Pub(pubBundle))
        pqSig == base64_decode(pqSigB64)
        verifierPQ == Signer_Dilithium_loadPublicKey(getDilithiumPub(pubBundle))
    IN IF fileCipher.exc # "none" THEN VerifyThrew(fileCipher.exc)
       ELSE IF metaCipher.exc # "none" THEN VerifyThrew(metaCipher.exc)
       ELSE IF edSig.exc # "none" THEN VerifyThrew(edSig.exc)
       ELSE IF ~Signer_Ed_verify(verifierEd, msgBytes, edSig.v)
       THEN VerifyFail("Ed25519 failed")
       ELSE IF pqSig.exc # "none" THEN VerifyThrew(pqSig.exc)
       ELSE IF ~Signer_Dilithium_verify(verifierPQ, msgBytes, pqSig.v)
       THEN VerifyFail("Dilithium failed")
       ELSE VerifyOk

\* FileDownloadHandler::processSingleFile; exceptions end in the catch that
\* emits downloadResult("Exception", what)
FileDownloadHandler_processSingleFile(user, files, fileId, resp) ==
    LET g == getFileData(files, fileId)
        fcd == g.fcd
        fileB64 == fieldToBase64(resp.file_content)
        metaB64 == fieldToBase64(resp.metadata)
        v == verifySignatures(user.username, fileB64, metaB64,
                              resp.pre_quantum_signature, resp.post_quantum_signature,
                              user.publicBundle)
        fileCipher == base64_decode(fileB64)
        metaCipher == base64_decode(metaB64)
        plainFile == decrypt(fileCipher.v, fcd.fek, fcd.file_nonce)
        plainMeta == decrypt(metaCipher.v, fcd.mek, fcd.metadata_nonce)
        jMeta == jsonParse(plainMeta.data.val)
        fileName == IF jMeta.exc = "none" /\ Len(jMeta.strs) >= 1
                    THEN jMeta.strs[1] ELSE fcd.filename
    IN IF ~g.has THEN Out("Error", "not in local store", FALSE, {}, NoWrite)
       ELSE IF ~user.has THEN Out("Exception", "No logged-in user", FALSE, {}, NoWrite)
       ELSE IF resp.statusCode # 200 THEN Out("Error", "Server returned", FALSE, {}, NoWrite)
       ELSE IF ~resp.is_owner THEN Out("Info", "shared", FALSE, {}, NoWrite)
       ELSE IF v.exc # "none" THEN Out("Exception", v.exc, FALSE, {}, NoWrite)
       ELSE IF ~v.ok
       THEN Out("Error", v.err, FALSE, {}, NoWrite)
       ELSE IF plainFile.exc # "none" THEN Out("Exception", plainFile.exc, TRUE, {}, NoWrite)
       ELSE IF plainMeta.exc # "none"
       THEN Out("Exception", plainMeta.exc, TRUE, {"file"}, NoWrite)
       ELSE Out("Success", "Saved to Downloads", TRUE, {"file", "meta"},
                [has |-> TRUE, name |-> fileName, data |-> plainFile.data])

\* DownloadFileHandler::processSingleFile: returns true or false, or throws
DownloadFileHandler_processSingleFile(user, files, fileId, resp) ==
    LET g == getFileData(files, fileId)
        fcd == g.fcd
        encFileData == base64_decode(resp.file_content.str)
        edSigRaw == base64_decode(resp.pre_quantum_signature)
        pqSigRaw == base64_decode(resp.post_quantum_signature)
        encMetaData == resp.metadata.data
        sigInput == user.username \o <<Ch.bar>> \o bytesToHex(sha256(encFileData.v))
                                  \o <<Ch.bar>> \o bytesToHex(sha256(encMetaData))
        msgBytes == TextBytes(sigInput)
        ownerPubBundle == user.publicBundle
        edVerifier == Signer_Ed_loadPublicKey(getEd25519PublicRaw(ownerPubBundle))
        pqVerifier == Signer_Dilithium_loadPublicKey(getDilithiumPublicRaw(ownerPubBundle))
        plainMeta == decrypt(encMetaData, fcd.mek, fcd.metadata_nonce)
        metaJson == jsonParse(plainMeta.data.val)
        plainFile == decrypt(encFileData.v, fcd.fek, fcd.file_nonce)
        threw == FirstExc(<<encFileData, edSigRaw, pqSigRaw>>)
    IN IF ~user.has THEN Out("throw", "std::runtime_error", FALSE, {}, NoWrite)
       ELSE IF ~g.has THEN Out("false", "no local FileClientData", FALSE, {}, NoWrite)
       ELSE IF resp.statusCode # 200 THEN Out("false", "non-200", FALSE, {}, NoWrite)
       ELSE IF ~resp.has_owner_user_id
       THEN Out("false", "Missing required fields", FALSE, {}, NoWrite)
       ELSE IF resp.file_content.form # "string"
       THEN Out("throw", "json::type_error", FALSE, {}, NoWrite)
       ELSE IF threw # "none" THEN Out("throw", threw, FALSE, {}, NoWrite)
       ELSE IF encFileData.v.len = 0 \/ edSigRaw.v.len = 0 \/ pqSigRaw.v.len = 0
       THEN Out("false", "decoded buffer empty", FALSE, {}, NoWrite)
       ELSE IF resp.metadata.form # "buffer"
       THEN Out("false", "metadata not in Buffer format", FALSE, {}, NoWrite)
       ELSE IF encMetaData.len = 0 THEN Out("false", "metadata empty", FALSE, {}, NoWrite)
       ELSE IF ~resp.is_owner THEN Out("false", "not owner", FALSE, {}, NoWrite)
       ELSE IF ~Signer_Ed_verify(edVerifier, msgBytes, edSigRaw.v)
       THEN Out("false", "Ed25519 signature verification failed", FALSE, {}, NoWrite)
       ELSE IF ~Signer_Dilithium_verify(pqVerifier, msgBytes, pqSigRaw.v)
       THEN Out("false", "Dilithium signature verification failed", FALSE, {}, NoWrite)
       ELSE IF plainMeta.exc # "none" \/ plainMeta.data.len = 0
       THEN Out("false", "metadata decryption failed", TRUE, {}, NoWrite)
       ELSE IF metaJson.exc # "none"
       THEN Out("false", "metadata JSON parse failed", TRUE, {"meta"}, NoWrite)
       ELSE IF Len(metaJson.strs) # 2
       THEN Out("false", "metadata JSON missing filename/filesize", TRUE, {"meta"}, NoWrite)
       ELSE IF plainFile.exc # "none" \/ plainFile.data.len = 0
       THEN Out("false", "file decryption failed", TRUE, {"meta"}, NoWrite)
       ELSE Out("true", "", TRUE, {"file", "meta"},
                [has |-> TRUE, name |-> metaJson.strs[1], data |-> plainFile.data])

\* -------------------------------------------------------- FileListHandler
NoGrant ==
    [file_id |-> 0, shared_with_username |-> <<>>,
     encrypted_fek |-> <<>>, encrypted_fek_nonce |-> <<>>,
     encrypted_mek |-> <<>>, encrypted_mek_nonce |-> <<>>,
     ephemeral_public_key |-> <<>>, file_content_nonce |-> <<>>,
     metadata_nonce |-> <<>>,
     forPub |-> NoBytes, fek0 |-> NoBytes, mek0 |-> NoBytes]

NoUnwrap == [exc |-> "none", fek |-> NoBytes, mek |-> NoBytes]
UnwrapThrew(x) == [exc |-> x, fek |-> NoBytes, mek |-> NoBytes]

\* an unwrap that keys the cipher with SHA-256 of the shared secret
unwrapKeysHashedSecret(sa, privBundle) ==
    LET ephPub == base64_decode(sa.ephemeral_public_key)
        x25519Priv == base64_decode(getX25519PrivateKeyBase64(privBundle))
        wrapKey == sha256(scalarmult(x25519Priv.v, ephPub.v))
        fekPtxt == decrypt(base64_decode(sa.encrypted_fek).v, wrapKey,
                           base64_decode(sa.encrypted_fek_nonce).v)
        mekPtxt == decrypt(base64_decode(sa.encrypted_mek).v, wrapKey,
                           base64_decode(sa.encrypted_mek_nonce).v)
    IN IF fekPtxt.exc # "none" \/ mekPtxt.exc # "none"
       THEN UnwrapThrew("std::runtime_error")
       ELSE [exc |-> "none", fek |-> fekPtxt.data, mek |-> mekPtxt.data]

\* an unwrap that accepts whatever length the wrapped keys decrypt to
unwrapKeysAnyLength(sa, privBundle) ==
    LET ephPub == base64_decode(sa.ephemeral_public_key)
        x25519Priv == base64_decode(getX25519PrivateKeyBase64(privBundle))
        sharedSecret == scalarmult(x25519Priv.v, ephPub.v)
        fekPtxt == decrypt(base64_decode(sa.encrypted_fek).v, sharedSecret,
                           base64_decode(sa.encrypted_fek_nonce).v)
        mekPtxt == decrypt(base64_decode(sa.encrypted_mek).v, sharedSecret,
                           base64_decode(sa.encrypted_mek_nonce).v)
    IN IF fekPtxt.exc # "none" \/ mekPtxt.exc # "none"
       THEN UnwrapThrew("std::runtime_error")
       ELSE [exc |-> "none", fek |-> fekPtxt.data, mek |-> mekPtxt.data]

\* FileListHandler::unwrapKeysFromJson on the entry's shared_access object
unwrapKeysFromJson(sa, privBundle) ==
    LET ephPub == base64_decode(sa.ephemeral_public_key)
        x25519Priv == base64_decode(getX25519PrivateKeyBase64(privBundle))
        sharedSecret == scalarmult(x25519Priv.v, ephPub.v)
        encFEK == base64_decode(sa.encrypted_fek)
        nonceFEK == base64_decode(sa.encrypted_fek_nonce)
        fekPtxt == decrypt(encFEK.v, sharedSecret, nonceFEK.v)
        encMEK == base64_decode(sa.encrypted_mek)
        nonceMEK == base64_decode(sa.encrypted_mek_nonce)
        mekPtxt == decrypt(encMEK.v, sharedSecret, nonceMEK.v)
    IN IF ephPub.exc # "none" THEN UnwrapThrew(ephPub.exc)
       ELSE IF ephPub.v.len # RAW_PUB_LEN THEN UnwrapThrew("std::runtime_error")
       ELSE IF x25519Priv.exc # "none" THEN UnwrapThrew(x25519Priv.exc)
       ELSE IF x25519Priv.v.len # KEY_LEN THEN UnwrapThrew("std::runtime_error")
       ELSE IF Num(sharedSecret) = 0 THEN UnwrapThrew("std::runtime_error")
       ELSE IF FirstExc(<<encFEK, nonceFEK>>) # "none"
       THEN UnwrapThrew(FirstExc(<<encFEK, nonceFEK>>))
       ELSE IF nonceFEK.v.len # NONCE_LEN THEN UnwrapThrew("std::runtime_error")
       ELSE IF fekPtxt.exc # "none" THEN UnwrapThrew("std::runtime_error")
       ELSE IF fekPtxt.data.len # KEY_LEN THEN UnwrapThrew("std::runtime_error")
       ELSE IF FirstExc(<<encMEK, nonceMEK>>) # "none"
       THEN UnwrapThrew(FirstExc(<<encMEK, nonceMEK>>))
       ELSE IF nonceMEK.v.len # NONCE_LEN THEN UnwrapThrew("std::runtime_error")
       ELSE IF mekPtxt.exc # "none" THEN UnwrapThrew("std::runtime_error")
       ELSE IF mekPtxt.data.len # KEY_LEN THEN UnwrapThrew("std::runtime_error")
       ELSE [exc |-> "none", fek |-> fekPtxt.data, mek |-> mekPtxt.data]

\* std::copy(src.begin(), src.end(), dst.begin()) onto a fixed-size array
copyOnto(src, dst) == IF src.len = 0 THEN dst ELSE Bytes(dst.len, src.val)

\* states of a std::vector after it was moved from (valid but unspecified)
MovedFrom == {"empty", "intact"}

NoListed ==
    [has |-> FALSE, exc |-> "none", filename |-> <<>>, size |-> <<>>,
     decrypted |-> {}, verified |-> FALSE, files |-> {}, unwrap |-> NoUnwrap]

\* FileListHandler::parseAndDecryptSingle on one entry of the server's list;
\* files is the store's envelope map, r numbers the random bytes of the
\* FileClientData the shared path constructs, moved is the state of rawMEK
\* after std::move.  Returns the optional's value, the exception that left
\* the function, and the envelope map afterwards.
parseAndDecryptSingle(entry, files, privBundle, r, moved) ==
    LET g == getFileData(files, entry.file_id)
        u == unwrapKeysFromJson(entry.shared_access, privBundle)
        iv == base64_decode(entry.shared_access.metadata_nonce)
        cache0 == IF entry.file_id # 0 THEN RandomFcd(r) ELSE ZeroFcd
        rawMEK == IF moved = "empty" THEN NoBytes ELSE u.mek
        cache == [cache0 EXCEPT !.file_id = entry.file_id,
                                !.mek = copyOnto(rawMEK, @),
                                !.fek = copyOnto(u.fek, @),
                                !.metadata_nonce = copyOnto(iv.v, @)]
        sharedOk == u.exc = "none" /\ iv.exc = "none" /\ iv.v.len = NONCE_LEN
        files2 == IF ~entry.is_owner /\ sharedOk THEN upsertFileData(files, cache) ELSE files
        finalMEK == IF entry.is_owner THEN g.fcd.mek ELSE u.mek
        iv_metadata == IF entry.is_owner THEN g.fcd.metadata_nonce ELSE iv.v
        metaCipherBytes == base64_decode(entry.metadata.str)
        ptxt == decrypt(metaCipherBytes.v, finalMEK, iv_metadata)
        metaJson == jsonParse(ptxt.data.val)
        skip == [NoListed EXCEPT !.files = files2, !.unwrap = u]
    IN IF entry.is_owner /\ ~g.has THEN [NoListed EXCEPT !.files = files]
       ELSE IF ~entry.is_owner /\ ~sharedOk THEN [NoListed EXCEPT !.files = files, !.unwrap = u]
       ELSE IF entry.metadata.form # "string" THEN [skip EXCEPT !.exc = "json::type_error"]
       ELSE IF metaCipherBytes.exc # "none" THEN [skip EXCEPT !.exc = metaCipherBytes.exc]
       ELSE IF ptxt.exc # "none" THEN skip
       ELSE IF metaJson.exc # "none" THEN [skip EXCEPT !.decrypted = {"meta"}]
       ELSE IF Len(metaJson.strs) # 2 THEN [skip EXCEPT !.decrypted = {"meta"}]
       ELSE [skip EXCEPT !.has = TRUE, !.filename = metaJson.strs[1],
                         !.size = metaJson.strs[2], !.decrypted = {"meta"}]

\* ------------------------------------------------------- FileShareHandler
\* KeyBundle::fromJson: called by fetchPublicBundle, declared nowhere in
\* keybundle.h; taken to parse the public bundle as fromJsonPublic does
KeyBundle_fromJson(text) == fromJsonPublic(text)

\* a lookup that hands on whatever the answer holds, without a failure
fetchAnyBundle(bundleText) ==
    [has |-> TRUE, kb |-> KeyBundle_fromJson(bundleText).kb]

\* FileShareHandler::fetchPublicBundle; bundleText is the key_bundle the
\* server holds for the user, <<>> when it answers with an error status
fetchPublicBundle(bundleText) ==
    IF bundleText = <<>> THEN [has |-> FALSE, kb |-> KeyBundleNew(1)]
    ELSE LET kb == KeyBundle_fromJson(bundleText)
         IN [has |-> kb.exc = "none", kb |-> kb.kb]

\* a key pair that is the same at every call
Kem_Ecdh_static(r) ==
    [sk |-> Bytes(KEY_LEN, <<1>>), pk |-> scalarmult_base(Bytes(KEY_LEN, <<1>>))]

\* Kem_Ecdh::keygen: random scalar (clamped, never zero) and its public key
Kem_Ecdh_keygen(r) ==
    LET sk == Bytes(KEY_LEN, <<Draw(r, 0) + 1>>)
    IN [sk |-> sk, pk |-> scalarmult_base(sk)]

\* eph and draw record the ephemeral key pair a share was made with and the
\* randomness of the call that made it
NoShare ==
    [status |-> "Error", text |-> "", sent |-> FALSE, body |-> <<>>, grant |-> NoGrant,
     eph |-> [sk |-> NoBytes, pk |-> NoBytes], draw |-> 0]
ShareError(t) == [NoShare EXCEPT !.text = t]

\* the wrapKey lambda of processShare: Symmetric::encrypt under the raw
\* shared secret with a fresh IV
wrapKey(key32, shared, r) == encrypt(key32, shared, RandomNonce(r))

\* the share body as a plain nlohmann::json would dump it, keys sorted
shareBodySorted(grant) ==
    << <<"encrypted_fek", grant.encrypted_fek>>,
       <<"encrypted_fek_nonce", grant.encrypted_fek_nonce>>,
       <<"encrypted_mek", grant.encrypted_mek>>,
       <<"encrypted_mek_nonce", grant.encrypted_mek_nonce>>,
       <<"ephemeral_public_key", grant.ephemeral_public_key>>,
       <<"file_content_nonce", grant.file_content_nonce>>,
       <<"file_id", <<grant.file_id>>>>,
       <<"metadata_nonce", grant.metadata_nonce>>,
       <<"shared_with_username", grant.shared_with_username>> >>

\* processShare step 5: the ordered request body
shareBody(grant) ==
    << <<"file_id", <<grant.file_id>>>>,
       <<"shared_with_username", grant.shared_with_username>>,
       <<"encrypted_fek", grant.encrypted_fek>>,
       <<"encrypted_fek_nonce", grant.encrypted_fek_nonce>>,
       <<"encrypted_mek", grant.encrypted_mek>>,
       <<"encrypted_mek_nonce", grant.encrypted_mek_nonce>>,
       <<"ephemeral_public_key", grant.ephemeral_public_key>>,
       <<"file_content_nonce", grant.file_content_nonce>>,
       <<"metadata_nonce", grant.metadata_nonce>> >>

shareSent(grant, eph, r) ==
    [status |-> "Success", text |-> "File shared successfully", sent |-> TRUE,
     body |-> shareBody(grant), grant |-> grant, eph |-> eph, draw |-> r]

\* processShare steps 4 and 5: both keys wrapped, the grant assembled; forPub,
\* fek0 and mek0 record what the grant was made from
shareWrapped(fileId, targetUser, fcd, bobX, eph, r, cF, cM) ==
    IF cF.exc # "none" THEN ShareError("Failed to wrap FEK")
    ELSE IF cM.exc # "none" THEN ShareError("Failed to wrap MEK")
    ELSE shareSent([file_id |-> fileId, shared_with_username |-> targetUser,
                    encrypted_fek |-> base64_encode(cF.data),
                    encrypted_fek_nonce |-> base64_encode(cF.iv),
                    encrypted_mek |-> base64_encode(cM.data),
                    encrypted_mek_nonce |-> base64_encode(cM.iv),
                    ephemeral_public_key |-> base64_encode(eph.pk),
                    file_content_nonce |-> base64_encode(fcd.file_nonce),
                    metadata_nonce |-> base64_encode(fcd.metadata_nonce),
                    forPub |-> bobX, fek0 |-> fcd.fek, mek0 |-> fcd.mek],
                   eph, r)

\* processShare step 3: ephemeral key pair and crypto_scalarmult
shareDerived(fileId, targetUser, fcd, bobX, eph, r) ==
    LET shared == scalarmult(eph.sk, bobX)
    IN IF Num(shared) = 0 THEN ShareError("ECDH failed")
       ELSE shareWrapped(fileId, targetUser, fcd, bobX, eph, r,
                         wrapKey(fcd.fek, shared, Draw(r + 1, 0)),
                         wrapKey(fcd.mek, shared, Draw(r + 1, 1)))

\* processShare step 2: the recipient's bundle as fetched
shareFetched(fileId, targetUser, fcd, maybeBobPub, r) ==
    IF ~maybeBobPub.has THEN ShareError("Key-bundle fetch failed")
    ELSE shareDerived(fileId, targetUser, fcd, getX25519Pub(maybeBobPub.kb),
                      Kem_Ecdh_keygen(r), r)

\* FileShareHandler::processShare up to the POST of the share body
processShare(user, files, fileId, targetUser, bundleText, r) ==
    LET g == getFileData(files, fileId)
    IN IF ~user.has THEN ShareError("Not logged-in")
       ELSE IF user.username = targetUser THEN ShareError("Cannot share with yourself")
       ELSE IF ~g.has THEN ShareError("No local FileClientData")
       ELSE shareFetched(fileId, targetUser, g.fcd, fetchPublicBundle(bundleText), r)

\* --------------------------------------------- server, recipient, actions
\* the recipient of shares runs the same client under a name of its own
PeerName == <<96 + NumUser + 1>>

FileName == <<110>>

\* file contents offered for upload: nothing, and NumPlain different files
Plaintexts == {NoBytes} \cup {Bytes(i, <<i + 3>>) : i \in 1 .. NumPlain}

\* the response's ciphertext bytes, whichever form the field has
fieldBytes(jField) ==
    IF jField.form = "string" THEN base64_decode(jField.str).v ELSE jField.data

\* the message both download handlers verify the signatures over
canonicalMessage(owner, resp) ==
    TextBytes(owner \o <<Ch.bar>> \o toHex(sha256(fieldBytes(resp.file_content)))
                    \o <<Ch.bar>> \o toHex(sha256(fieldBytes(resp.metadata))))

\* whether the response's signatures verify under the owner's public keys
EdValid(resp, F) ==
    Signer_Ed_verify(Signer_Ed_loadPublicKey(getEd25519PublicRaw(F.kb)),
                     canonicalMessage(F.owner, resp),
                     base64_decode(resp.pre_quantum_signature).v)

PqValid(resp, F) ==
    Signer_Dilithium_verify(Signer_Dilithium_loadPublicKey(getDilithiumPublicRaw(F.kb)),
                            canonicalMessage(F.owner, resp),
                            base64_decode(resp.post_quantum_signature).v)

NoOut == Out("", "", FALSE, {}, NoWrite)

\* what the server answers to an upload: a status and a body that holds the
\* new file_id, holds no file_id, or is not JSON
UploadAnswer(statusCode, body) == [statusCode |-> statusCode, body |-> body]
Created == UploadAnswer(201, "file_id")
UploadAnswers ==
    {Created, UploadAnswer(201, "missing"), UploadAnswer(201, "unparseable"),
     UploadAnswer(500, "unparseable")}

NoX ==
    [op |-> "init", handler |-> "", fid |-> 0, asStored |-> FALSE, reached |-> FALSE,
     edValid |-> FALSE, pqValid |-> FALSE, out |-> NoOut, up |-> NoUpload,
     share |-> NoShare, unwrap |-> NoUnwrap, grant |-> NoGrant,
     gkind |-> "", cacheSame |-> TRUE, reqs |-> <<>>,
     answer |-> UploadAnswer(0, ""),
     listed |-> [has |-> FALSE, exc |-> "none", filename |-> <<>>, size |-> <<>>]]

NoPeer == [has |-> FALSE, fullBundle |-> KeyBundleNew(1), files |-> {}]

\* ------------------------------------------------------- signed requests
Clock == 1 .. NumClock

\* QDateTime::currentDateTimeUtc().toString(Qt::ISODate): the reading as
\* text, ending in Z for UTC
ISODate(now) == <<48 + now, 90>>

POST == <<80, 79, 83, 84>>

\* the request paths, "/" and one letter each
ApiPath ==
    [upload |-> <<47, 117>>, download |-> <<47, 100>>, list |-> <<47, 108>>,
     delete |-> <<47, 120>>, share |-> <<47, 115>>, getbundle |-> <<47, 103>>]

\* a canonical string with method and path exchanged
makeCanonicalStringSwapped(username, timestamp, method, path, bodyJson) ==
    username \o <<Ch.bar>> \o timestamp \o <<Ch.bar>> \o path
             \o <<Ch.bar>> \o method \o <<Ch.bar>> \o bodyJson

\* NetworkAuthUtils::makeCanonicalString
makeCanonicalString(username, timestamp, method, path, bodyJson) ==
    username \o <<Ch.bar>> \o timestamp \o <<Ch.bar>> \o method
             \o <<Ch.bar>> \o path \o <<Ch.bar>> \o bodyJson

\* the two signatures of a canonical string, Base64, joined by "||"
combinedSignature(signerEd, signerPQ, canonical) ==
    base64_encode(Signer_Ed_sign(signerEd, TextBytes(canonical)))
        \o <<Ch.bar, Ch.bar>>
        \o base64_encode(Signer_Dilithium_sign(signerPQ, TextBytes(canonical)))

\* NetworkAuthUtils::makeAuthHeaders: the headers, with the string that was
\* signed kept beside them; an exception of a signer is rethrown
makeAuthHeaders(username, privBundle, method, path, bodyJson, now) ==
    LET timestamp == ISODate(now)
        canonical == makeCanonicalString(username, timestamp, method, path, bodyJson)
        edSigner == Signer_Ed_loadPrivateKey(
                        base64_decode(getEd25519PrivateKeyBase64(privBundle)).v)
        pqSigner == Signer_Dilithium_loadPrivateKey(
                        base64_decode(getDilithiumPrivateKeyBase64(privBundle)).v)
    IN [exc |-> IF edSigner.exc # "none" THEN edSigner.exc ELSE pqSigner.exc,
        canonical |-> canonical,
        X_Username |-> username, X_Timestamp |-> timestamp,
        X_Signature |-> combinedSignature(edSigner, pqSigner, canonical)]

\* HttpRequest(method, path, body, headers) as HttpRequest::toString sends
\* it: request line, the headers given, the body appended unchanged (the
\* Content-Type, Content-Length and Host lines are left out); canonical is
\* the string the X-Signature was made over
HttpRequest(method, path, body, hdrs) ==
    [method |-> method, path |-> path, body |-> body,
     X_Username |-> hdrs.X_Username, X_Timestamp |-> hdrs.X_Timestamp,
     X_Signature |-> hdrs.X_Signature, canonical |-> hdrs.canonical]

\* the pattern of every handler but the upload: makeAuthHeaders on the
\* dumped body, then HttpRequest with the same method, path and body; no
\* request leaves when makeAuthHeaders throws
signedPost(user, path, bodyStr, now) ==
    LET headers == makeAuthHeaders(user.username, user.fullBundle, POST, path, bodyStr, now)
    IN IF headers.exc # "none" THEN <<>>
       ELSE <<HttpRequest(POST, path, bodyStr, headers)>>

\* jbody.dump() of an object given as its (key, value) pairs in dump order
dumpBody(body) == jsonDump([i \in 1 .. Len(body) |-> body[i][2]])

\* FileUploadHandler::processSingleFile steps 10 to 14: the body dumped
\* once, the canonical string built in place around it, signed with the
\* keys loaded for the file signature, sent with the same body
uploadHttp(m_username, m_keybundle, body, now) ==
    LET bodyString == dumpBody(body)
        timestamp == ISODate(now) \o <<90>>
        canonicalString == m_username \o <<Ch.bar>> \o timestamp \o <<Ch.bar>> \o POST
                               \o <<Ch.bar>> \o ApiPath.upload \o <<Ch.bar>> \o bodyString
        signerEd == Signer_Ed_loadPrivateKey(
                        base64_decode(getEd25519PrivateKeyBase64(m_keybundle)).v)
        signerPQ == Signer_Dilithium_loadPrivateKey(
                        base64_decode(getDilithiumPrivateKeyBase64(m_keybundle)).v)
    IN HttpRequest(POST, ApiPath.upload, bodyString,
                   [X_Username |-> m_username, X_Timestamp |-> timestamp,
                    X_Signature |-> combinedSignature(signerEd, signerPQ, canonicalString),
                    canonical |-> canonicalString])

\* the body {"file_id": n} of a download or delete request
fileIdBody(fileId) == jsonDump(<< <<48 + fileId>> >>)

\* the request of a download: sent when the envelope is in the store (and a
\* user is)
downloadHttp(user, files, fileId, now) ==
    IF user.has /\ getFileData(files, fileId).has
    THEN signedPost(user, ApiPath.download, fileIdBody(fileId), now)
    ELSE <<>>

\* FileShareHandler::fetchPublicBundle and sendShareRequest: the requests
\* processShare sends, at clock readings nows[1] and nows[2]
shareHttp(user, files, fileId, targetUser, sh, nows) ==
    (IF user.has /\ user.username # targetUser /\ getFileData(files, fileId).has
     THEN signedPost(user, ApiPath.getbundle, jsonDump(<<targetUser>>), nows[1])
     ELSE <<>>)
    \o (IF sh.sent THEN signedPost(user, ApiPath.share, dumpBody(sh.body), nows[2])
        ELSE <<>>)

XferInit ==
    /\ srv = [files |-> <<>>, peerBundle |-> <<>>, grants |-> {}]
    /\ peer = NoPeer
    /\ xlast = NoX

\* a client that takes the next id whatever the answer is
acceptAnyAnswer(resp, nextId) == nextId

\* processSingleFile steps 15 and 16: the file_id of a 201 answer, 0 for any
\* other status and when json::parse or at("file_id") throws
parseUploadResponse(resp, nextId) ==
    IF resp.statusCode # 201 THEN 0
    ELSE IF resp.body # "file_id" THEN 0
    ELSE nextId

\* FileUploadHandler::processSingleFile: the request, the server's answer
\* (a 201 with a file_id stores the file under the next id), then
\* upsertFileData and save(); MaxFiles bounds the uploads that succeed
Upload(plaintext, filename, r, resp, now) ==
    LET up == uploadRequest(m_user.username, m_user.fullBundle, plaintext, filename, r)
        newFileId == IF up.sent THEN parseUploadResponse(resp, Len(srv.files) + 1) ELSE 0
        stored == newFileId # 0
        files2 == upsertFileData(m_files, [up.fcd EXCEPT !.file_id = newFileId])
        F == [owner |-> m_user.username,
              file_content |-> Field(up.body, "file_content"),
              metadata |-> Field(up.body, "metadata"),
              pre_quantum_signature |-> Field(up.body, "pre_quantum_signature"),
              post_quantum_signature |-> Field(up.body, "post_quantum_signature"),
              kb |-> m_user.fullBundle, plain |-> plaintext, name |-> filename]
    IN /\ ~locked
       /\ LoggedIn(m_user)
       /\ stored => Len(srv.files) < MaxFiles
       /\ srv' = IF stored THEN [srv EXCEPT !.files = Append(@, F)] ELSE srv
       /\ m_files' = IF stored THEN files2 ELSE m_files
       /\ disk' = IF stored THEN to_json(m_user, files2) ELSE disk
       /\ hist' = IF stored THEN [hist EXCEPT !.disk = hist.mem] ELSE hist
       /\ xlast' = [NoX EXCEPT !.op = "upload", !.up = up, !.answer = resp,
                               !.fid = IF stored THEN newFileId ELSE 0,
                               !.reqs = IF up.sent
                                        THEN <<uploadHttp(m_user.username, m_user.fullBundle,
                                                          up.body, now)>>
                                        ELSE <<>>]
       /\ UNCHANGED <<m_user, locked, changes, last, failObs, peer, thr>>

\* the parts of a download that do not depend on the handler
Downloaded(handler, fileId, scenario, resp, out, now) ==
    LET F == srv.files[fileId]
    IN /\ xlast' = [NoX EXCEPT !.op = "download", !.handler = handler, !.fid = fileId,
                               !.asStored = (scenario = "asStored"),
                               !.reached = (resp.statusCode = 200 /\ resp.is_owner),
                               !.edValid = EdValid(resp, F),
                               !.pqValid = PqValid(resp, F),
                               !.out = out,
                               !.reqs = downloadHttp(m_user, m_files, fileId, now)]
       /\ UNCHANGED <<vaultVars, srv, peer>>

\* FileDownloadHandler::downloadFile -> processSingleFile
DownloadFD(fileId, scenario, form, now) ==
    LET F == srv.files[fileId]
        resp == DownloadResponse(F, F.kb, scenario, form)
    IN /\ ~locked
       /\ fileId \in 1 .. Len(srv.files)
       /\ Downloaded("FileDownloadHandler", fileId, scenario, resp,
                     FileDownloadHandler_processSingleFile(m_user, m_files, fileId, resp),
                     now)

\* DownloadFileHandler::downloadFile -> processSingleFile
DownloadDF(fileId, scenario, form, now) ==
    LET F == srv.files[fileId]
        resp == DownloadResponse(F, F.kb, scenario, form)
    IN /\ ~locked
       /\ fileId \in 1 .. Len(srv.files)
       /\ Downloaded("DownloadFileHandler", fileId, scenario, resp,
                     DownloadFileHandler_processSingleFile(m_user, m_files, fileId, resp),
                     now)

listOut(res) ==
    Out(IF res.exc # "none" THEN "throw" ELSE IF res.has THEN "listed" ELSE "skipped",
        res.exc, res.verified, res.decrypted, NoWrite)

listedOf(res) ==
    [has |-> res.has, exc |-> res.exc, filename |-> res.filename, size |-> res.size]

\* FileListHandler::parseAndDecryptSingle on an entry the user owns
ListOwned(fileId, form, now) ==
    LET F == srv.files[fileId]
        cMeta == base64_decode(F.metadata).v
        entry == [file_id |-> fileId, is_owner |-> TRUE, shared_access |-> NoGrant,
                  metadata |-> IF form = "string" THEN StrField(F.metadata)
                               ELSE BufField(cMeta),
                  owner_username |-> F.owner]
        res == parseAndDecryptSingle(entry, m_files, m_user.fullBundle, 0, "empty")
    IN /\ ~locked
       /\ m_user.has
       /\ fileId \in 1 .. Len(srv.files)
       /\ xlast' = [NoX EXCEPT !.op = "list", !.handler = "FileListHandler",
                               !.fid = fileId, !.out = listOut(res),
                               !.listed = listedOf(res),
                               !.reqs = signedPost(m_user, ApiPath.list,
                                                   jsonDump(<< <<49>> >>), now)]
       /\ UNCHANGED <<vaultVars, srv, peer>>

\* the recipient registers: a fresh identity whose public bundle the server
\* hands out from then on
PeerRegister(seed) ==
    LET kb == KeyBundleNew(seed)
    IN /\ peer' = [has |-> TRUE, fullBundle |-> kb, files |-> {}]
       /\ srv' = [srv EXCEPT !.peerBundle = jsonDump(toJsonPublic(kb))]
       /\ xlast' = [NoX EXCEPT !.op = "peerRegister"]
       /\ UNCHANGED vaultVars

\* sendShareRequest and what follows it: on 201 the server keeps the grant
\* for (file, recipient); any other status is reported as an error
ShareAnswered(fileId, sh, status, reqs) ==
    /\ srv' = IF sh.sent /\ status = 201
              THEN [srv EXCEPT !.grants = {g \in @ : g.file_id # fileId} \cup {sh.grant}]
              ELSE srv
    /\ xlast' = [NoX EXCEPT !.op = "share", !.fid = fileId, !.grant = sh.grant,
                            !.share = IF sh.sent /\ status # 201
                                      THEN [sh EXCEPT !.status = "Error",
                                                      !.text = "Share request failed"]
                                      ELSE sh,
                            !.reqs = reqs]
    /\ UNCHANGED <<vaultVars, peer>>

\* FileShareHandler::shareFile -> processShare
Share(fileId, targetUser, r, status, nows) ==
    LET sh == processShare(m_user, m_files, fileId, targetUser,
                           IF targetUser = PeerName THEN srv.peerBundle ELSE <<>>, r)
    IN /\ ~locked
       /\ ShareAnswered(fileId, sh, status,
                        shareHttp(m_user, m_files, fileId, targetUser, sh, nows))

\* what the server can hand out as the shared_access of a stored grant:
\* the grant as stored, or with a wrapped key one byte short or empty
GrantKinds == {"asStored", "fekShort", "fekEmpty", "mekShort", "mekEmpty"}

alteredB64(b64, kind) == base64_encode(Altered(base64_decode(b64).v, kind))

servedGrant(sa, kind) ==
    CASE kind = "asStored" -> sa
      [] kind = "fekShort" -> [sa EXCEPT !.encrypted_fek = alteredB64(@, "short")]
      [] kind = "fekEmpty" -> [sa EXCEPT !.encrypted_fek = alteredB64(@, "empty")]
      [] kind = "mekShort" -> [sa EXCEPT !.encrypted_mek = alteredB64(@, "short")]
      [] kind = "mekEmpty" -> [sa EXCEPT !.encrypted_mek = alteredB64(@, "empty")]

\* what the recipient's handler leaves behind for one entry
PeerListed(fileId, sa, kind, res) ==
    /\ peer' = [peer EXCEPT !.files = res.files]
    /\ xlast' = [NoX EXCEPT !.op = "peerList", !.handler = "FileListHandler",
                            !.fid = fileId, !.out = listOut(res),
                            !.listed = listedOf(res), !.unwrap = res.unwrap,
                            !.grant = sa, !.gkind = kind,
                            !.cacheSame = (res.files = peer.files)]
    /\ UNCHANGED <<vaultVars, srv>>

\* the entry the server lists for a file shared with the recipient
sharedEntry(fileId, F, sa) ==
    [file_id |-> fileId, is_owner |-> FALSE, shared_access |-> sa,
     metadata |-> StrField(F.metadata), owner_username |-> F.owner]

\* the recipient lists: parseAndDecryptSingle on the entry of a file shared
\* with them, with upsertFileData(cache) in their own store
PeerList(fileId, r, moved, kind) ==
    /\ peer.has
    /\ fileId \in 1 .. Len(srv.files)
    /\ \E sa \in srv.grants :
          /\ sa.file_id = fileId
          /\ PeerListed(fileId, servedGrant(sa, kind), kind,
                        parseAndDecryptSingle(
                            sharedEntry(fileId, srv.files[fileId], servedGrant(sa, kind)),
                            peer.files, peer.fullBundle, r, moved))

ShareStatuses == {201, 403}


\* ------------------------------------------- the store called by threads
\* an erase that empties the map
removeEveryFileData(files, file_id) == {}

\* ClientStore::removeFileData (the map update)
removeFileData(files, file_id) == {f \in files : f.file_id # file_id}

\* thread t can begin a call
CanCall(t) == thr.of[t].pc = "idle" /\ thr.calls < MaxCalls

\* thr after thread t began op and stands at pc, m_mutex owned by owner
Began(t, op, pc, owner) ==
    [thr EXCEPT !.calls = @ + 1, !.mutex = owner,
                !.of[t] = [NoCall EXCEPT !.pc = pc, !.op = op]]

\* thr after thread t began a call that came back at once
CameBack(t, op) ==
    [thr EXCEPT !.calls = @ + 1, !.returned = @ + 1,
                !.of[t] = [NoCall EXCEPT !.op = op]]

threadFrame == <<locked, last, hist, failObs, xferVars>>

\* ClientStore::upsertFileData, first block: m_files[fcd.file_id] = fcd
\* under m_mutex (an existing node is assigned in place); save() follows
UpsertFileData(t, fcd) ==
    /\ CanCall(t)
    /\ thr.mutex = 0
    /\ m_files' = upsertFileData(m_files, fcd)
    /\ thr' = Began(t, "upsertFileData", "save", 0)
    /\ UNCHANGED <<m_user, disk, changes, threadFrame>>

\* ClientStore::removeFileData, first block: m_files.erase(file_id) under
\* m_mutex; save() follows
RemoveFileData(t, file_id) ==
    /\ CanCall(t)
    /\ thr.mutex = 0
    /\ m_files' = removeFileData(m_files, file_id)
    /\ thr' = Invalidated(Began(t, "removeFileData", "save", 0),
                          {f.file_id : f \in m_files} \cap {file_id})
    /\ UNCHANGED <<m_user, disk, changes, threadFrame>>

\* ClientStore::setUserWithPassword up to the block that moves the new
\* UserInfo into m_user under m_mutex; save() follows
SetUserWithPassword(t, username, password, seed, r) ==
    /\ CanCall(t)
    /\ thr.mutex = 0
    /\ m_user' = NewUserInfo(username, password, KeyBundleNew(seed), r)
    /\ thr' = Began(t, "setUserWithPassword", "save", 0)
    /\ UNCHANGED <<m_files, disk, changes, threadFrame>>

\* a call of ClientStore::save
SaveCall(t) ==
    /\ CanCall(t)
    /\ thr' = Began(t, "save", "save", thr.mutex)
    /\ UNCHANGED <<m_user, m_files, disk, changes, threadFrame>>

\* ClientStore::changePassword up to its call of save(): it locks m_mutex,
\* and when its checks pass it overwrites the record and still owns the
\* mutex when it calls save()
ChangePasswordLocked(t, oldPassword, newPassword, ub, rnd) ==
    LET r == changePassword(m_user, oldPassword, newPassword, ub, rnd)
        rewrote == r.kind = "return" /\ r.ret
    IN /\ CanCall(t)
       /\ thr.mutex = 0
       /\ changes < MaxChanges
       /\ m_user' = r.user
       /\ changes' = IF rewrote THEN changes + 1 ELSE changes
       /\ thr' = IF rewrote THEN Began(t, "changePassword", "relock", t)
                 ELSE CameBack(t, "changePassword")
       /\ UNCHANGED <<m_files, disk, threadFrame>>

\* save() called by changePassword locks the m_mutex its thread owns:
\* undefined; it goes on, blocks for ever, or throws std::system_error
\* (changePassword's lock_guard then releases the mutex)
Relock(t, outcome) ==
    /\ thr.of[t].pc = "relock"
    /\ thr' = CASE outcome = "proceed" -> [thr EXCEPT !.of[t].pc = "save"]
                [] outcome = "hang" -> [thr EXCEPT !.of[t].pc = "hung"]
                [] outcome = "throw" ->
                     [thr EXCEPT !.of[t].pc = "idle", !.of[t].how = "throw",
                                 !.mutex = 0, !.returned = @ + 1]
    /\ UNCHANGED <<m_user, m_files, disk, changes, threadFrame>>

\* ClientStore::save: m_mutex locked, to_json() built, the vault file
\* opened with std::ios::trunc
SaveOpen(t) ==
    /\ thr.of[t].pc = "save"
    /\ thr.mutex \in {0, t}
    /\ disk' = [NoDisk EXCEPT !.exists = TRUE, !.written = "none"]
    /\ thr' = [thr EXCEPT !.mutex = t, !.writing = @ \cup {t},
                          !.of[t].pc = "write",
                          !.of[t].snap = to_json(m_user, m_files)]
    /\ UNCHANGED <<m_user, m_files, changes, threadFrame>>

\* ClientStore::save: the dump written and flushed, m_mutex released;
\* after changePassword its own lock_guard is still to be destroyed
SaveWrite(t) ==
    /\ thr.of[t].pc = "write"
    /\ disk' = thr.of[t].snap
    /\ thr' = IF thr.of[t].op = "changePassword"
              THEN [thr EXCEPT !.mutex = 0, !.writing = @ \ {t},
                               !.of[t].pc = "unlock"]
              ELSE [thr EXCEPT !.mutex = 0, !.writing = @ \ {t},
                               !.of[t].pc = "idle", !.returned = @ + 1]
    /\ UNCHANGED <<m_user, m_files, changes, threadFrame>>

\* changePassword returns: its lock_guard unlocks m_mutex, which save()
\* already released (undefined): the mutex is left alone or set free,
\* whoever owns it by now
UnlockAgain(t, frees) ==
    /\ thr.of[t].pc = "unlock"
    /\ thr' = [thr EXCEPT !.mutex = IF frees THEN 0 ELSE @,
                          !.of[t].pc = "idle", !.returned = @ + 1]
    /\ UNCHANGED <<m_user, m_files, disk, changes, threadFrame>>

\* a handler calls ClientStore::getFileData: nullptr, or a pointer to the
\* map node, which the handler keeps while it talks to the server
GetFileData(t, file_id) ==
    LET g == getFileData(m_files, file_id)
    IN /\ CanCall(t)
       /\ thr.mutex = 0
       /\ thr' = IF g.has
                 THEN [Began(t, "getFileData", "holding", 0) EXCEPT
                          !.of[t].ref = file_id, !.of[t].seen = g.fcd]
                 ELSE CameBack(t, "getFileData")
       /\ UNCHANGED <<m_user, m_files, disk, changes, threadFrame>>

\* what a read through a pointer to a destroyed node can give
DanglingReads == {"old", "other", "crash"}

\* the handler reads the keys and nonces through the pointer (no lock):
\* the node's contents of now, or, the node destroyed, anything
UseFileData(t, ub, dr) ==
    LET c == thr.of[t]
        g == getFileData(m_files, c.ref)
        used == IF ~c.dangling THEN g.fcd
                ELSE IF dr = "old" THEN c.seen
                ELSE [RandomFcd(ub) EXCEPT !.file_id = c.ref]
    IN /\ c.pc = "holding"
       /\ c.dangling \/ dr = "old"
       /\ thr' = [thr EXCEPT !.returned = @ + 1,
                             !.of[t].pc = "idle", !.of[t].used = used,
                             !.of[t].how = IF c.dangling /\ dr = "crash"
                                           THEN "crash" ELSE "read"]
       /\ UNCHANGED <<m_user, m_files, disk, changes, threadFrame>>

\* the envelopes the threads store
ThreadFcds == {[RandomFcd(r) EXCEPT !.file_id = 1] : r \in RandVals}

VaultNext ==
    \/ \E u \in Usernames, p \in Passwords, s \in Seeds :
          Register(u, p, s, 0)
    \/ Save
    \/ Load(NumId + 1)
    \/ NewStore
    \/ Destroy
    \/ ClearUser
    \/ \E u \in Usernames, p \in Passwords, ub \in UbChoices(m_user) : Login(u, p, ub)
    \/ \E o, n \in Passwords, ub \in UbChoices(m_user), r \in RandVals,
          k \in RelockOutcomes : ChangePassword(o, n, ub, r, k)

TamperNext ==
    \/ \E u \in Usernames, p \in Passwords, s \in Seeds :
          Register(u, p, s, 0)
    \/ Load(NumId + 1)
    \/ NewStore
    \/ \E u \in Usernames, p \in Passwords, ub \in UbChoices(m_user) : Login(u, p, ub)
    \/ \E f \in TamperFields, k \in TamperKinds : Tamper(f, k)

vars ==
    <<m_user, m_files, disk, locked, changes, last, hist, failObs, srv, peer, xlast, thr>>

Init == VaultInit /\ XferInit

Next == VaultNext

Spec == Init /\ [][Next]_vars

\* registration from the register page, before anyone is logged in
RoundTripNext ==
    \/ ~m_user.has /\ \E p \in Passwords, s \in Seeds, r \in RandVals :
          Register(<<97>>, p, s, r)
    \/ Save
    \/ Load(NumId + 1)
    \/ NewStore
    \/ Destroy
    \/ ClearUser
    \/ \E u \in Usernames, p \in Passwords, ub \in UbChoices(m_user) : Login(u, p, ub)

SpecRoundTrip == Init /\ [][RoundTripNext]_vars

SpecTamper == Init /\ [][TamperNext]_vars

\* the recipient, logged in on a client of their own
PeerUser ==
    [NoUser EXCEPT !.has = TRUE, !.username = PeerName,
                   !.publicBundle = peer.fullBundle, !.fullBundle = peer.fullBundle,
                   !.masterKey = Bytes(KEY_LEN, <<1>>)]

DownloadHandlers == {"FileDownloadHandler", "DownloadFileHandler"}

\* the recipient of a grant downloads the file with either handler: the
\* server answers with the ciphertexts, the owner's signatures over their
\* digests, the owner's name and is_owner false
PeerDownload(handler, fileId, form, now) ==
    LET F == srv.files[fileId]
        resp == DownloadResponse(F, F.kb, "notOwner", form)
        out == IF handler = "FileDownloadHandler"
               THEN FileDownloadHandler_processSingleFile(PeerUser, peer.files, fileId, resp)
               ELSE DownloadFileHandler_processSingleFile(PeerUser, peer.files, fileId, resp)
    IN /\ peer.has
       /\ fileId \in 1 .. Len(srv.files)
       /\ \E sa \in srv.grants : sa.file_id = fileId
       /\ xlast' = [NoX EXCEPT !.op = "peerDownload", !.handler = handler, !.fid = fileId,
                               !.edValid = EdValid(resp, F), !.pqValid = PqValid(resp, F),
                               !.out = out,
                               !.reqs = downloadHttp(PeerUser, peer.files, fileId, now)]
       /\ UNCHANGED <<vaultVars, srv, peer>>

DeleteStatuses == {200, 404}

\* FileListHandler::deleteFile: the signed request; on 200 removeFileData,
\* which saves
DeleteFile(fileId, status, now) ==
    LET reqs == IF m_user.has
                THEN signedPost(m_user, ApiPath.delete, fileIdBody(fileId), now)
                ELSE <<>>
        dropped == reqs # <<>> /\ status = 200
        files2 == removeFileData(m_files, fileId)
    IN /\ ~locked
       /\ fileId \in 1 .. Len(srv.files)
       /\ m_files' = IF dropped THEN files2 ELSE m_files
       /\ disk' = IF dropped THEN to_json(m_user, files2) ELSE disk
       /\ hist' = IF dropped THEN [hist EXCEPT !.disk = hist.mem] ELSE hist
       /\ xlast' = [NoX EXCEPT !.op = "delete", !.handler = "FileListHandler",
                               !.fid = fileId, !.reqs = reqs]
       /\ UNCHANGED <<m_user, locked, changes, last, failObs, srv, peer, thr>>

\* one identity, its uploads, and everything the server can answer to a
\* download or a listing of them
TransferNext ==
    \/ ~m_user.has /\ \E u \in Usernames, s \in Seeds : Register(u, 1, s, 0)
    \/ \E p \in Plaintexts, r \in RandVals, st \in UploadAnswers :
          Upload(p, FileName, r, st, 1)
    \/ \E f \in 1 .. MaxFiles, sc \in DownloadScenarios, m \in MetaForms :
          DownloadFD(f, sc, m, 1)
    \/ \E f \in 1 .. MaxFiles, sc \in DownloadScenarios, m \in MetaForms :
          DownloadDF(f, sc, m, 1)
    \/ \E f \in 1 .. MaxFiles, m \in MetaForms : ListOwned(f, m, 1)

SpecTransfer == Init /\ [][TransferNext]_vars

\* one identity, its uploads, and the downloads of them by both handlers
DownloadNext ==
    \/ ~m_user.has /\ \E u \in Usernames : Register(u, 1, 1, 0)
    \/ \E p \in Plaintexts, r \in RandVals : Upload(p, FileName, r, Created, 1)
    \/ \E f \in 1 .. MaxFiles, sc \in DownloadScenarios, m \in MetaForms :
          DownloadFD(f, sc, m, 1)
    \/ \E f \in 1 .. MaxFiles, sc \in DownloadScenarios, m \in MetaForms :
          DownloadDF(f, sc, m, 1)

SpecDownload == Init /\ [][DownloadNext]_vars

\* an owner who shares uploads with a recipient who lists them
ShareNext ==
    \/ ~m_user.has /\ \E u \in Usernames : Register(u, 1, 1, 0)
    \/ \E r \in RandVals : Upload(Bytes(1, <<4>>), FileName, r, Created, 1)
    \/ \E s \in Seeds : PeerRegister(s)
    \/ \E f \in 1 .. MaxFiles, t \in Usernames \cup {PeerName}, r \in RandVals,
          st \in ShareStatuses : Share(f, t, r, st, <<1, 1>>)
    \/ \E f \in 1 .. MaxFiles, r \in RandVals, mv \in MovedFrom, k \in GrantKinds :
          PeerList(f, r, mv, k)

SpecShare == Init /\ [][ShareNext]_vars

\* every handler that signs a request, at every reading of the clock
SignedNext ==
    \/ ~m_user.has /\ Register(<<97>>, 1, 1, 0)
    \/ PeerRegister(NumId)
    \/ \E p \in {NoBytes, Bytes(1, <<4>>)}, r \in {0, NumRand - 1}, st \in UploadAnswers,
          now \in Clock : Upload(p, FileName, r, st, now)
    \/ \E f \in 1 .. MaxFiles, now \in Clock : DownloadFD(f, "asStored", "string", now)
    \/ \E f \in 1 .. MaxFiles, now \in Clock : DownloadDF(f, "asStored", "buffer", now)
    \/ \E f \in 1 .. MaxFiles, now \in Clock : ListOwned(f, "string", now)
    \/ \E f \in 1 .. MaxFiles, t \in {<<97>>, PeerName}, st \in ShareStatuses,
          now \in Clock : Share(f, t, 0, st, <<now, NumClock>>)
    \/ \E f \in 1 .. MaxFiles, st \in DeleteStatuses, now \in Clock :
          DeleteFile(f, st, now)

SpecSigned == Init /\ [][SignedNext]_vars

\* an owner who shares one upload, again and again, with a recipient
EphemeralNext ==
    \/ ~m_user.has /\ \E s \in Seeds : Register(<<97>>, 1, s, 0)
    \/ \E s \in Seeds : PeerRegister(s)
    \/ Upload(Bytes(1, <<4>>), FileName, 0, Created, 1)
    \/ \E f \in 1 .. MaxFiles, t \in {<<97>>, PeerName}, r \in RandVals,
          st \in ShareStatuses : Share(f, t, r, st, <<1, 1>>)

SpecEphemeral == Init /\ [][EphemeralNext]_vars

\* an owner shares an upload; the recipient lists it and downloads it
RecipientNext ==
    \/ ~m_user.has /\ Register(<<97>>, 1, 1, 0)
    \/ PeerRegister(NumId)
    \/ \E r \in RandVals : Upload(Bytes(1, <<4>>), FileName, r, Created, 1)
    \/ \E f \in 1 .. MaxFiles, r \in RandVals, st \in ShareStatuses :
          Share(f, PeerName, r, st, <<1, 1>>)
    \/ \E f \in 1 .. MaxFiles, mv \in MovedFrom : PeerList(f, 0, mv, "asStored")
    \/ \E h \in DownloadHandlers, f \in 1 .. MaxFiles, m \in MetaForms, now \in Clock :
          PeerDownload(h, f, m, now)

SpecRecipient == Init /\ [][RecipientNext]_vars

\* the store of the round trips, with saves that do not complete
CrashNext ==
    \/ ~m_user.has /\ \E u \in Usernames, p \in Passwords, s \in Seeds, r \in RandVals :
          Register(u, p, s, r)
    \/ Save
    \/ \E c \in SaveCuts, k \in BOOLEAN : SaveInterrupted(c, k)
    \/ Load(NumId + 1)
    \/ NewStore
    \/ ClearUser
    \/ \E u \in Usernames, p \in Passwords, ub \in UbChoices(m_user) : Login(u, p, ub)

SpecCrash == Init /\ [][CrashNext]_vars

\* logins on a record that is as registered or was altered on disk
LoginFailNext ==
    \/ ~m_user.has /\ \E p \in Passwords : Register(<<97>>, p, 1, 0)
    \/ Load(NumId + 1)
    \/ NewStore
    \/ ClearUser
    \/ \E u \in Usernames, p \in Passwords, ub \in UbChoices(m_user) : Login(u, p, ub)
    \/ \E f \in TamperFields, k \in TamperKinds : Tamper(f, k)

SpecLoginFail == Init /\ [][LoginFailNext]_vars

\* threads calling into one store
ThreadNext ==
    \/ \E t \in Threads, f \in ThreadFcds : UpsertFileData(t, f)
    \/ \E t \in Threads : RemoveFileData(t, 1)
    \/ \E t \in Threads, r \in RandVals : SetUserWithPassword(t, <<97>>, 1, 1, r)
    \/ \E t \in Threads : SaveCall(t)
    \/ \E t \in Threads, n \in Passwords, r \in RandVals :
          ChangePasswordLocked(t, 1, n, 0, r)
    \/ \E t \in Threads, k \in RelockOutcomes : Relock(t, k)
    \/ \E t \in Threads : SaveOpen(t)
    \/ \E t \in Threads : SaveWrite(t)
    \/ \E t \in Threads, b \in BOOLEAN : UnlockAgain(t, b)
    \/ \E t \in Threads : GetFileData(t, 1)
    \/ \E t \in Threads, ub \in RandVals, dr \in DanglingReads : UseFileData(t, ub, dr)
    \/ Load(NumId + 1)

SpecThreads == Init /\ [][ThreadNext]_vars

\* ================================================================= claims

\* C1: on every path of every handler (download of owned files and the
\* listing path that decrypts metadata), no file content or metadata from
\* the server is decrypted unless both the classical and the post-quantum
\* signature over it were verified successfully first.
C1_VerifiedBeforeDecrypted == xlast.out.decrypted # {} => xlast.out.verified

\* C2: in a download, if the Ed25519 or the Dilithium signature over
\* owner_username|hFile|hMeta fails to verify, neither cFile nor cMeta is
\* decrypted and no file is written.
C2_InvalidSignatureFailsClosed ==
    (xlast.op = "download" /\ ~(xlast.edValid /\ xlast.pqValid))
        => /\ xlast.out.decrypted = {}
           /\ ~xlast.out.wrote.has
           /\ xlast.out.status \notin {"Success", "true"}

\* C2 witness: a download that reached verification with a valid Ed25519
\* and an invalid Dilithium signature, ended in an error, nothing decrypted
C2_Witness ==
    /\ xlast.op = "download" /\ xlast.reached
    /\ xlast.edValid /\ ~xlast.pqValid
    /\ xlast.out.status = "Error" /\ xlast.out.text = "Dilithium failed"
    /\ xlast.out.decrypted = {} /\ ~xlast.out.wrote.has

\* C3: Unlock (loginAndDecrypt) with a password that is not the one the
\* stored record is wrapped under returns failure to its caller (it does
\* not succeed, throw or hang) and no user becomes logged in.
C3_WrongPasswordReturnsFailure ==
    (last.op = "login" /\ last.nameOk /\ last.pre.why = "ok" /\ last.pwd # last.pre.pwd)
        => /\ last.kind = "return"
           /\ last.ret = FALSE
           /\ LoggedIn(m_user) => last.wasIn

\* C4: all Unlock failures caused by a wrong password or by an altered
\* stored record (salt, masterEnc, masterNonce, privEnc, privNonce) are
\* one and the same observable failure: same return value, same error.
C4_SingleGenericFailure == Cardinality(failObs) <= 1

\* C5: ChangePassword(old, new) with old not the current password fails
\* and leaves the stored record unchanged in memory and on disk.
C5_WrongOldPasswordChangesNothing ==
    (last.op = "changePassword" /\ last.hadUser /\ last.pre.why = "ok"
        /\ last.pwd # last.pre.pwd)
        => /\ last.kind = "return"
           /\ last.ret = FALSE
           /\ last.recSame
           /\ last.diskSame

\* C6: after Register(u, old, I) and a successful ChangePassword(old, new)
\* with new # old, saved and reloaded or not, Unlock(u, new) succeeds and
\* recovers I, and Unlock(u, old) fails.
C6_NewPasswordOpensOldFails ==
    (last.op = "login" /\ last.nameOk /\ last.pre.why = "ok" /\ last.pre.chg)
        => /\ last.pwd = last.pre.pwd =>
                /\ last.kind = "return" /\ last.ret
                /\ m_user.fullBundle = KeyBundleNew(last.pre.seed)
           /\ last.pwd = last.pre.prev =>
                /\ last.kind = "return" /\ ~last.ret

\* C7: after setUserWithPassword(u, p, I), with or without save, a fresh
\* store and load in between, loginAndDecrypt(u, p) succeeds and the
\* recovered identity equals I in every public and private key field.
C7_RegisterUnlockRoundTrip ==
    (last.op = "login" /\ last.nameOk /\ last.pre.why = "ok" /\ last.pwd = last.pre.pwd)
        => /\ last.kind = "return"
           /\ last.ret
           /\ LoggedIn(m_user)
           /\ m_user.fullBundle = KeyBundleNew(last.pre.seed)

\* C7 witness: a login with the registration password succeeded on a store
\* that had been reloaded from disk (no decrypted keys in memory before)
C7_Witness ==
    /\ last.op = "login" /\ last.ret /\ ~last.wasIn
    /\ last.pwd = last.pre.pwd
    /\ m_user.fullBundle = KeyBundleNew(last.pre.seed)
    /\ m_user.fullBundle # KeyBundleNew(NumId + 1)

\* C8: upload signs, with the classical and the post-quantum private key,
\* username|hFile|hMeta, hFile and hMeta the hex SHA-256 digests of the
\* ciphertexts cFile and cMeta placed in the request body.
C8_UploadSignsDigestMessage ==
    (xlast.op = "upload" /\ xlast.up.sent)
        => LET body == xlast.up.body
               cFile == base64_decode(Field(body, "file_content")).v
               cMeta == base64_decode(Field(body, "metadata")).v
               msg == TextBytes(m_user.username \o <<Ch.bar>> \o toHex(sha256(cFile))
                                                \o <<Ch.bar>> \o toHex(sha256(cMeta)))
           IN /\ Signer_Ed_verify(
                     Signer_Ed_loadPrivateKey(m_user.fullBundle.ed25519PrivRaw), msg,
                     base64_decode(Field(body, "pre_quantum_signature")).v)
              /\ base64_decode(Field(body, "post_quantum_signature")).v =
                     Signer_Dilithium_sign(
                         Signer_Dilithium_loadPrivateKey(m_user.fullBundle.dilithiumPrivRaw),
                         msg)

\* C9: when an owner uploads plaintext P and later downloads the same
\* file_id and the server returns the uploaded ciphertexts and signatures
\* unmodified, the dual-signature verification passes and decryption under
\* the stored FEK and ivFile yields exactly P.
C9_UploadDownloadRoundTrip ==
    (xlast.op = "download" /\ xlast.asStored)
        => /\ xlast.out.verified
           /\ xlast.out.wrote.has
           /\ xlast.out.wrote.data = srv.files[xlast.fid].plain

\* C10: the FEK and MEK that unwrapKeysFromJson computes with the
\* recipient's private agreement key from the grant processShare produced
\* for the recipient's public key are identical to the envelope's FEK and MEK.
C10_UnwrapRecoversKeys ==
    (xlast.op = "peerList" /\ xlast.gkind = "asStored"
        /\ xlast.grant.forPub = peer.fullBundle.x25519PubRaw)
        => /\ xlast.unwrap.exc = "none"
           /\ xlast.unwrap.fek = getFileData(m_files, xlast.fid).fcd.fek
           /\ xlast.unwrap.mek = getFileData(m_files, xlast.fid).fcd.mek

\* C10 witness: the recipient unwrapped a grant made for their current key
\* and holds the owner's two keys, which differ from one another
C10_Witness ==
    /\ xlast.op = "peerList" /\ xlast.gkind = "asStored"
    /\ xlast.grant.forPub = peer.fullBundle.x25519PubRaw
    /\ xlast.unwrap.exc = "none"
    /\ getFileData(m_files, xlast.fid).has
    /\ xlast.unwrap.fek = getFileData(m_files, xlast.fid).fcd.fek
    /\ xlast.unwrap.mek = getFileData(m_files, xlast.fid).fcd.mek
    /\ xlast.unwrap.fek # xlast.unwrap.mek

\* C11: after a successful unwrap of a grant for file_id, the local store
\* holds under file_id an envelope whose FEK and MEK are the unwrapped ones
\* and whose file nonce and metadata nonce are the grant's
\* file_content_nonce and metadata_nonce.
C11_CacheHoldsGrantEnvelope ==
    (xlast.op = "peerList" /\ xlast.unwrap.exc = "none")
        => LET c == getFileData(peer.files, xlast.fid)
           IN /\ c.has
              /\ c.fcd.fek = xlast.unwrap.fek
              /\ c.fcd.mek = xlast.unwrap.mek
              /\ c.fcd.file_nonce = base64_decode(xlast.grant.file_content_nonce).v
              /\ c.fcd.metadata_nonce = base64_decode(xlast.grant.metadata_nonce).v

\* C12: unwrap fails whenever the wrapped FEK or the wrapped MEK does not
\* decrypt to exactly 32 bytes, and then no envelope for the file is
\* created or changed in the local store.
C12_WrongLengthKeyFailsUnwrap ==
    (xlast.op = "peerList"
        /\ \/ base64_decode(xlast.grant.encrypted_fek).v.len # KEY_LEN
           \/ base64_decode(xlast.grant.encrypted_mek).v.len # KEY_LEN)
        => /\ xlast.unwrap.exc # "none"
           /\ ~xlast.listed.has
           /\ xlast.cacheSame

\* C12 witness: a grant whose wrapped MEK is one byte short was refused
\* while the recipient already held an envelope for the file
C12_Witness ==
    /\ xlast.op = "peerList" /\ xlast.gkind = "mekShort"
    /\ base64_decode(xlast.grant.encrypted_fek).v.len = KEY_LEN
    /\ xlast.unwrap.exc = "std::runtime_error"
    /\ getFileData(peer.files, xlast.fid).has
    /\ xlast.cacheSame

\* the value a record's masterEnc holds for someone who knows the password:
\* masterEnc decrypted under the key derived from the password and the salt
wrappedMasterKey(user, password) ==
    decrypt(user.masterEnc, derivePasswordKey(password, user.salt, 0),
            user.masterNonce).data

\* C13: the master key is generated once at registration and never changes:
\* after a changePassword that rewrote the record, masterEnc wraps (under
\* the new password) the master key generated at registration, and the
\* username, privNonce, privEnc, public identity and the decrypted keys in
\* memory are as before; only salt, masterNonce and masterEnc differ.
C13_MasterKeyNeverChanges ==
    (last.op = "changePassword" /\ ~last.recSame /\ last.pre.why = "ok")
        => /\ wrappedMasterKey(m_user, last.pwd2) = last.pre.mk
           /\ last.restSame

\* C14: every changePassword call that passes its checks (and so rewrites
\* the record) returns true to its caller, and once it has returned save()
\* has completed: the vault file holds the new salt, masterNonce, masterEnc.
C14_ChangePasswordReturnsSaved ==
    (last.op = "changePassword" /\ ~last.recSame)
        => /\ last.kind = "return"
           /\ last.ret
           /\ disk.exists /\ disk.user.has
           /\ disk.user.salt = base64_encode(m_user.salt)
           /\ disk.user.master_nonce = base64_encode(m_user.masterNonce)
           /\ disk.user.master_enc = base64_encode(m_user.masterEnc)

\* C15: every vault write replaces the whole record atomically: at every
\* instant, a crash or a write failure inside save() included, the vault
\* file holds a complete record (the previous or the new one), never an
\* empty or partially written one.
C15_VaultFileAlwaysComplete == disk.exists => disk.written = "all"

\* C16: concurrent mutation of the vault is serialized: whatever threads
\* call upsertFileData, removeFileData, setUserWithPassword, changePassword
\* and save, no two writes of the vault file overlap, and once every call
\* has come back the vault file equals the final state in memory.
C16_MutationSerialized ==
    /\ Cardinality(thr.writing) <= 1
    /\ (thr.returned = thr.calls /\ disk.exists) => disk = to_json(m_user, m_files)

\* C17: vault lookups give copies or immutable views, not live references:
\* the envelope a handler obtained from getFileData stays valid and reads
\* as it was when obtained until the handler is done with it, whatever
\* other threads remove, replace or reload meanwhile.
C17_LookupStaysValid ==
    \A t \in Threads :
        (thr.of[t].op = "getFileData" /\ thr.of[t].pc = "idle" /\ thr.of[t].how # "")
            => /\ thr.of[t].how = "read"
               /\ thr.of[t].used = thr.of[t].seen

\* C18: getUser() returns a UserInfo only when someone has logged in or
\* registered and was not cleared since: it returns nullopt after
\* construction, after clearUser(), after a load() with nobody logged in,
\* and after a loginAndDecrypt that failed with nobody logged in.
C18_GetUserOnlyWhenLoggedIn ==
    /\ last.op \in {"init", "new", "clearUser"} => ~getUser(m_user).has
    /\ (last.op = "load" /\ ~last.wasIn) => ~getUser(m_user).has
    /\ (last.op = "login" /\ ~last.wasIn /\ ~(last.kind = "return" /\ last.ret))
          => ~getUser(m_user).has

C20_ClearUserKeepsDiskRecord ==
    [][(last.op = "clearUser" /\ disk.user.has /\ (Save \/ Destroy))
        => disk'.user = disk.user]_vars

\* a KeyBundle without its private keys, a UserInfo without its decrypted
\* fields: what is left is the encrypted record and the public keys
PublicPart(kb) ==
    [kb EXCEPT !.x25519PrivRaw = NoBytes, !.ed25519PrivRaw = NoBytes,
               !.dilithiumPrivRaw = NoBytes]

WithoutDecrypted(user) ==
    [user EXCEPT !.masterKey = NoBytes, !.fullBundle = PublicPart(@),
                 !.publicBundle = PublicPart(@)]

C22_CanonicalMatchesRequest ==
    \A i \in 1 .. Len(xlast.reqs) :
        LET q == xlast.reqs[i]
            canon == q.X_Username \o <<Ch.bar>> \o q.X_Timestamp \o <<Ch.bar>> \o q.method
                         \o <<Ch.bar>> \o q.path \o <<Ch.bar>> \o q.body
        IN /\ q.canonical = canon
           /\ q.X_Signature =
                  combinedSignature(
                      Signer_Ed_loadPrivateKey(m_user.fullBundle.ed25519PrivRaw),
                      Signer_Dilithium_loadPrivateKey(m_user.fullBundle.dilithiumPrivRaw),
                      canon)

\* C22 witness: a share that sent both of its signed requests, the key
\* bundle lookup and the share itself, at different readings of the clock
C22_Witness ==
    /\ xlast.op = "share" /\ Len(xlast.reqs) = 2
    /\ xlast.reqs[1].path = ApiPath.getbundle /\ xlast.reqs[2].path = ApiPath.share
    /\ xlast.reqs[1].X_Timestamp # xlast.reqs[2].X_Timestamp
    /\ xlast.reqs[2].body = dumpBody(xlast.share.body)

\* the keys of a dumped object, in the order they are transmitted
KeysOf(body) == [i \in 1 .. Len(body) |-> body[i][1]]

\* C23: the upload request body as transmitted contains exactly the fields
\* file_content, metadata, pre_quantum_signature, post_quantum_signature,
\* in this order.
C23_UploadBodyFieldOrder ==
    (xlast.op = "upload" /\ xlast.up.sent)
        => KeysOf(xlast.up.body) = <<"file_content", "metadata",
                                     "pre_quantum_signature", "post_quantum_signature">>

\* the envelope the store holds for the file the last upload was given an
\* id for
StoredEnvelope == getFileData(m_files, xlast.fid)

\* C24: on a successful upload the envelope persisted under the file_id the
\* server assigned holds the FEK and the MEK that encrypted the content and
\* the metadata of the request, and its ivFile and ivMeta are the IVs the
\* two encrypt calls returned: encrypting the uploaded plaintext and its
\* metadata under the envelope's keys and nonces gives the transmitted
\* ciphertexts, and the vault file holds the same envelope.
C24_EnvelopeHoldsUploadKeys ==
    (xlast.op = "upload" /\ xlast.fid # 0)
        => LET e == StoredEnvelope.fcd
               up == xlast.up
               encFile == encrypt(up.plaintext, e.fek, e.file_nonce)
               encMeta == encrypt(TextBytes(metaDump(up.filename, up.plaintext.len)),
                                  e.mek, e.metadata_nonce)
           IN /\ StoredEnvelope.has
              /\ e.file_id = xlast.fid
              /\ e.fek = up.fcd.fek /\ e.mek = up.fcd.mek
              /\ Field(up.body, "file_content") = base64_encode(encFile.data)
              /\ Field(up.body, "metadata") = base64_encode(encMeta.data)
              /\ e.file_nonce = encFile.iv /\ e.metadata_nonce = encMeta.iv
              /\ fcd_to_json(e) \in disk.files

\* C24 witness: an upload the server answered with 201 and a file_id, its
\* envelope in the store and in the vault file
C24_Witness ==
    /\ xlast.op = "upload" /\ xlast.up.sent /\ xlast.fid = Len(srv.files)
    /\ StoredEnvelope.has
    /\ \E j \in disk.files : j.file_id = xlast.fid

\* C25: the filename of the envelope persisted by a successful upload is
\* the name of the uploaded file.
C25_EnvelopeFilenameIsUploaded ==
    (xlast.op = "upload" /\ xlast.fid # 0)
        => StoredEnvelope.fcd.filename = xlast.up.filename

C27_ShareBodyFields ==
    (xlast.op = "share" /\ xlast.share.sent)
        => LET body == xlast.share.body
               e == getFileData(m_files, xlast.fid).fcd
               shared == scalarmult(peer.fullBundle.x25519PrivRaw,
                                    base64_decode(Field(body, "ephemeral_public_key")).v)
               ivFek == base64_decode(Field(body, "encrypted_fek_nonce")).v
               ivMek == base64_decode(Field(body, "encrypted_mek_nonce")).v
           IN /\ KeysOf(body) =
                     <<"file_id", "shared_with_username", "encrypted_fek",
                       "encrypted_fek_nonce", "encrypted_mek", "encrypted_mek_nonce",
                       "ephemeral_public_key", "file_content_nonce", "metadata_nonce">>
              /\ xlast.reqs[Len(xlast.reqs)].body = dumpBody(body)
              /\ Field(body, "file_id") = <<xlast.fid>>
              /\ Field(body, "shared_with_username") = PeerName
              /\ ivFek.len = NONCE_LEN /\ ivMek.len = NONCE_LEN /\ ivFek # ivMek
              /\ Field(body, "encrypted_fek") = base64_encode(encrypt(e.fek, shared, ivFek).data)
              /\ Field(body, "encrypted_mek") = base64_encode(encrypt(e.mek, shared, ivMek).data)
              /\ Field(body, "file_content_nonce") = base64_encode(e.file_nonce)
              /\ Field(body, "metadata_nonce") = base64_encode(e.metadata_nonce)

\* C27 witness: a share request for an uploaded file was sent to the server
\* and accepted, the envelope's two keys differing from one another
C27_Witness ==
    /\ xlast.op = "share" /\ xlast.share.sent /\ xlast.share.status = "Success"
    /\ xlast.grant \in srv.grants
    /\ Len(xlast.reqs) = 2
    /\ getFileData(m_files, xlast.fid).fcd.fek # getFileData(m_files, xlast.fid).fcd.mek

\* what a share x leaves of its ephemeral key pair: the private key is the
\* call's own random draw, its public half is the ephemeral_public_key of
\* the body, and the one secret agreed with the recipient's public key
\* wraps both keys
EphemeralUsedOnce(x) ==
    LET body == x.share.body
        eph == x.share.eph
        shared == scalarmult(eph.sk, x.grant.forPub)
    IN /\ eph.sk = Bytes(KEY_LEN, <<Draw(x.share.draw, 0) + 1>>)
       /\ eph.pk = scalarmult_base(eph.sk)
       /\ Field(body, "ephemeral_public_key") = base64_encode(eph.pk)
       /\ Field(body, "encrypted_fek") =
              base64_encode(encrypt(x.grant.fek0, shared,
                                    base64_decode(Field(body, "encrypted_fek_nonce")).v).data)
       /\ Field(body, "encrypted_mek") =
              base64_encode(encrypt(x.grant.mek0, shared,
                                    base64_decode(Field(body, "encrypted_mek_nonce")).v).data)
       /\ {q.path : q \in {x.reqs[i] : i \in 1 .. Len(x.reqs)}}
              = {ApiPath.getbundle, ApiPath.share}

C29_RecipientCanDownload ==
    (/\ xlast.op = "peerDownload"
     /\ getFileData(peer.files, xlast.fid).has
     /\ xlast.edValid /\ xlast.pqValid)
        => /\ xlast.out.verified
           /\ xlast.out.wrote.has
           /\ xlast.out.status \in {"Success", "true"}

\* what handler h makes of the server's answer to a download of fileId in
\* the given scenario, the metadata ciphertext sent in the given form
DownloadOutcome(h, fileId, scenario, form) ==
    LET F == srv.files[fileId]
        resp == DownloadResponse(F, F.kb, scenario, form)
    IN IF h = "FileDownloadHandler"
       THEN FileDownloadHandler_processSingleFile(m_user, m_files, fileId, resp)
       ELSE DownloadFileHandler_processSingleFile(m_user, m_files, fileId, resp)

\* C30: a download accepts the metadata ciphertext as a Base64 string and
\* as a byte-array object; both forms give the same ciphertext bytes, the
\* same hMeta and so the same verification and decryption result.
C30_MetadataFormsEquivalent ==
    xlast.op = "download"
        => \A sc \in DownloadScenarios :
              DownloadOutcome(xlast.handler, xlast.fid, sc, "string")
                  = DownloadOutcome(xlast.handler, xlast.fid, sc, "buffer")

\* ------------------------------------------------ the envelope map
\* the envelopes handlers store: any keys and nonces under any file id
EnvelopeIds == 1 .. NumEnv
Envelopes ==
    {[RandomFcd(r) EXCEPT !.file_id = i, !.filename = FileName] :
        r \in RandVals, i \in EnvelopeIds}

\* ClientStore::upsertFileData, the whole call: m_files[fcd.file_id] = fcd,
\* then save()
UpsertAndSave(fcd) ==
    /\ ~locked
    /\ m_files' = upsertFileData(m_files, fcd)
    /\ disk' = to_json(m_user, m_files')
    /\ hist' = [hist EXCEPT !.disk = hist.mem]
    /\ last' = [NoLast EXCEPT !.op = "upsertFileData", !.ret = TRUE, !.pre = hist.mem,
                               !.hadUser = m_user.has, !.wasIn = LoggedIn(m_user),
                               !.diskSame = (disk' = disk)]
    /\ UNCHANGED <<m_user, locked, changes, failObs>>
    /\ UNCHANGED <<xferVars, thr>>

\* ClientStore::removeFileData, the whole call: m_files.erase(file_id),
\* then save()
RemoveAndSave(file_id) ==
    /\ ~locked
    /\ m_files' = removeFileData(m_files, file_id)
    /\ disk' = to_json(m_user, m_files')
    /\ thr' = Invalidated(thr, {f.file_id : f \in m_files} \cap {file_id})
    /\ hist' = [hist EXCEPT !.disk = hist.mem]
    /\ last' = [NoLast EXCEPT !.op = "removeFileData", !.ret = TRUE, !.pre = hist.mem,
                               !.hadUser = m_user.has, !.wasIn = LoggedIn(m_user),
                               !.diskSame = (disk' = disk)]
    /\ UNCHANGED <<m_user, locked, changes, failObs>>
    /\ UNCHANGED xferVars

EnvelopeNext ==
    \/ ~m_user.has /\ Register(<<97>>, 1, 1, 0)
    \/ \E fcd \in Envelopes : UpsertAndSave(fcd)
    \/ \E i \in EnvelopeIds : RemoveAndSave(i)
    \/ Save
    \/ Load(NumId + 1)
    \/ NewStore

SpecEnvelopes == Init /\ [][EnvelopeNext]_vars

\* the map holds one entry per file id
KeyedById(files) == \A f, g \in files : f.file_id = g.file_id => f = g

setUserWithPasswordLeaves(username, password, fullKb, r) == {"MEK"}

\* ClientStore::loginAndDecrypt: K_pwd is filled with zeros on the path
\* that returns true only; MEK is moved into stored.masterKey on that path
\* and is a live local on every exit after it was decrypted
loginAndDecryptLeaves(user, username, password, ub) ==
    IF ~user.has \/ user.username # username THEN {}
    ELSE LET K_pwd == derivePasswordKey(password, user.salt, ub)
             plainMEK == decrypt(user.masterEnc, K_pwd, user.masterNonce)
             MEK == plainMEK.data
             privPlain == decrypt(user.privEnc, MEK, user.privNonce)
             j == jsonParse(privPlain.data.val)
             fullKb == fromJsonPrivate(j.strs)
         IN IF plainMEK.exc # "none" THEN {"K_pwd"}
            ELSE IF MEK.len = 0 THEN {"K_pwd"}
            ELSE IF privPlain.exc # "none" THEN {"K_pwd", "MEK"}
            ELSE IF privPlain.data.len = 0 THEN {"K_pwd", "MEK"}
            ELSE IF j.exc # "none" THEN {"K_pwd", "MEK"}
            ELSE IF fullKb.exc # "none" THEN {"K_pwd", "MEK"}
            ELSE {}

\* ClientStore::changePassword: K_old, K_new and MEK are filled with zeros
\* just before save() on the path that returns true; the early returns
\* come before the fills
changePasswordLeaves(user, oldPassword, newPassword, ub, r) ==
    IF ~user.has THEN {}
    ELSE LET K_old == derivePasswordKey(oldPassword, user.salt, ub)
             plainMEK == decrypt(user.masterEnc, K_old, user.masterNonce)
             MEK == plainMEK.data
         IN IF plainMEK.exc # "none" THEN {"K_old"}
            ELSE IF MEK.len = 0 THEN {"K_old"}
            ELSE {}

\* FileShareHandler::processShare: ~Kem_Ecdh zeroes eph._sk; ephPriv, the
\* vector getSecretKey() returned, and shared, the crypto_scalarmult
\* output used as the wrap key, are only destroyed
processShareLeaves(user, files, fileId, targetUser, bundleText, r) ==
    LET g == getFileData(files, fileId)
    IN IF ~user.has \/ user.username = targetUser \/ ~g.has THEN {}
       ELSE IF ~fetchPublicBundle(bundleText).has THEN {}
       ELSE {"ephPriv", "shared"}

\* register, unlock, change of password and share on one client
ZeroizeNext ==
    \/ ~m_user.has /\ \E p \in Passwords : Register(<<97>>, p, 1, 0)
    \/ \E u \in Usernames, p \in Passwords, ub \in UbChoices(m_user) : Login(u, p, ub)
    \/ \E o, n \in Passwords, ub \in UbChoices(m_user) :
          ChangePassword(o, n, ub, 0, "proceed")
    \/ PeerRegister(NumId)
    \/ Upload(Bytes(1, <<4>>), FileName, 0, Created, 1)
    \/ \E f \in 1 .. MaxFiles, t \in {<<97>>, PeerName} :
          Share(f, t, 0, 201, <<1, 1>>)

SpecZeroize == Init /\ [][ZeroizeNext]_vars

\* C32: on every exit path of Register, Unlock, ChangePassword and Share
\* the transient key buffers the operation created (password-derived key,
\* local copy of the master key, ECDH secret used as wrap key, ephemeral
\* private key) have been zeroed before it returns.
C32_TransientKeysZeroed ==
    [][/\ \A p \in Passwords : Register(<<97>>, p, 1, 0) =>
              setUserWithPasswordLeaves(<<97>>, p, KeyBundleNew(1), 0) = {}
       /\ \A u \in Usernames, p \in Passwords, ub \in UbChoices(m_user) :
              Login(u, p, ub) => loginAndDecryptLeaves(m_user, u, p, ub) = {}
       /\ \A o, n \in Passwords, ub \in UbChoices(m_user) :
              ChangePassword(o, n, ub, 0, "proceed") =>
                  changePasswordLeaves(m_user, o, n, ub, 0) = {}
       /\ \A f \in 1 .. MaxFiles, t \in {<<97>>, PeerName} :
              Share(f, t, 0, 201, <<1, 1>>) =>
                  processShareLeaves(m_user, m_files, f, t,
                      IF t = PeerName THEN srv.peerBundle ELSE <<>>, 0) = {}]_vars

\* ------------------------------------------ what the download's caller sees
\* the downloadResult(title, message) signal a download ends with.
\* DownloadFileHandler::downloadFile maps true, false and an exception of
\* processSingleFile to a title and a message; FileDownloadHandler emits the
\* title and message itself
downloadResult(h, out) ==
    IF h = "FileDownloadHandler" THEN [title |-> out.status, message |-> out.text]
    ELSE IF out.status = "true"
    THEN [title |-> "Success", message |-> "Downloaded file to your Desktop"]
    ELSE IF out.status = "false"
    THEN [title |-> "Error", message |-> "Failed to download file"]
    ELSE [title |-> "Exception", message |-> out.text]

\* answers that are malformed or incomplete for handler h: a non-2xx
\* status, and for DownloadFileHandler an answer without owner_user_id
MalformedScenarios(h) ==
    IF h = "DownloadFileHandler" THEN {"notFound", "noOwnerId"} ELSE {"notFound"}

\* the run ended because a signature did not verify or a decryption failed
CryptoFailure(out) ==
    out.text \in {"Ed25519 failed", "Dilithium failed",
                  "Ed25519 signature verification failed",
                  "Dilithium signature verification failed",
                  "metadata decryption failed", "file decryption failed"}

\* C33: a malformed or incomplete server response (non-2xx status, missing
\* required field) is reported to the download's caller as a failure that
\* differs from the report of a cryptographic failure, and never as success.
C33_MalformedDistinctFromCrypto ==
    xlast.op = "download"
        => \A sm \in MalformedScenarios(xlast.handler), sc \in DownloadScenarios,
              fm, fc \in MetaForms :
              LET om == DownloadOutcome(xlast.handler, xlast.fid, sm, fm)
                  oc == DownloadOutcome(xlast.handler, xlast.fid, sc, fc)
              IN /\ downloadResult(xlast.handler, om).title # "Success"
                 /\ CryptoFailure(oc) =>
                        downloadResult(xlast.handler, om)
                            # downloadResult(xlast.handler, oc)

\* ------------------------------------------------ identities in the store
\* the private keys of a KeyBundle that are present (non-empty vectors)
PrivateKeysOf(kb) ==
    {k \in {"x25519PrivRaw", "ed25519PrivRaw", "dilithiumPrivRaw"} : kb[k].len > 0}

\* full identity or public-only
AllOrNone(kb) == Cardinality(PrivateKeysOf(kb)) \in {0, 3}

\* C34: every identity has its three private keys all present or all
\* absent, and the identity kept as the vault record's public identity
\* (UserInfo::publicBundle) has all of them absent.
C34_PrivateKeysAllOrNone ==
    m_user.has =>
        /\ AllOrNone(m_user.fullBundle)
        /\ AllOrNone(m_user.publicBundle)
        /\ PrivateKeysOf(m_user.publicBundle) = {}

\* ------------------------------------------------ damaged key bundles
\* the keys of a bundle's JSON by their place among its string values, and
\* the ways one of them can be damaged: one byte short, empty, or (for the
\* SPKI-wrapped keys) the DER header altered
PublicKeyPlaces == [dilithium |-> 1, x25519 |-> 2, ed25519 |-> 3]
PrivateKeyPlaces ==
    [dilithiumPriv |-> 1, dilithium |-> 2, x25519Priv |-> 3, x25519 |-> 4,
     ed25519Priv |-> 5, ed25519 |-> 6]
KeyFaults(key) ==
    IF key \in {"x25519", "ed25519"} THEN {"short", "empty", "flip"}
    ELSE {"short", "empty"}

\* the string values strs with the key at place i damaged
damagedKey(strs, i, fault) ==
    [strs EXCEPT ![i] = toBase64(Altered(fromBase64(@).v, fault))]

\* the get-bundle answer of the server carries a damaged key for the
\* recipient (the server is not trusted; the text is what fetchPublicBundle
\* hands to KeyBundle::fromJson)
ServeBundle(key, fault) ==
    /\ peer.has
    /\ srv' = [srv EXCEPT !.peerBundle =
                  jsonDump(damagedKey(toJsonPublic(peer.fullBundle),
                                      PublicKeyPlaces[key], fault))]
    /\ xlast' = [NoX EXCEPT !.op = "serveBundle"]
    /\ UNCHANGED <<vaultVars, peer>>

\* a public bundle text whose three keys have the encodings and lengths of
\* X25519, Ed25519 (44-byte SPKI) and Dilithium-5 (DIL_PK_LEN raw bytes)
WellFormedPublic(text) ==
    LET j == jsonParse(text)
    IN /\ j.exc = "none"
       /\ Len(j.strs) = 3
       /\ \A i \in 1 .. 3 : fromBase64(j.strs[i]).exc = "none"
       /\ fromBase64(j.strs[1]).v.len = DIL_PK_LEN
       /\ looksLikeSpki44(fromBase64(j.strs[2]).v, Nid.x25519)
       /\ looksLikeSpki44(fromBase64(j.strs[3]).v, Nid.ed25519)

\* an owner shares with a recipient whose bundle the server may damage
ParseNext ==
    \/ ~m_user.has /\ \E s \in Seeds : Register(<<97>>, 1, s, 0)
    \/ \E s \in Seeds : PeerRegister(s)
    \/ Upload(Bytes(1, <<4>>), FileName, 0, Created, 1)
    \/ \E key \in DOMAIN PublicKeyPlaces : \E fault \in KeyFaults(key) :
          ServeBundle(key, fault)
    \/ \E f \in 1 .. MaxFiles, r \in RandVals : Share(f, PeerName, r, 201, <<1, 1>>)

SpecParse == Init /\ [][ParseNext]_vars

\* C35: parsing a public or private identity in which any key is malformed
\* or of the wrong length fails with an error and yields no identity.
C35_MalformedKeyFailsParse ==
    /\ (srv.peerBundle # <<>> /\ ~WellFormedPublic(srv.peerBundle))
          => /\ fromJsonPublic(srv.peerBundle).exc # "none"
             /\ ~fetchPublicBundle(srv.peerBundle).has
             /\ xlast.op = "share" => ~xlast.share.sent
    /\ m_user.has
          => \A key \in DOMAIN PrivateKeyPlaces : \A fault \in KeyFaults(key) :
                fromJsonPrivate(damagedKey(toJsonPrivate(m_user.fullBundle),
                                           PrivateKeyPlaces[key], fault)).exc # "none"

\* ------------------------------------------- public identity round trip
\* the three public-key fields of a KeyBundle
PublicKeysOf(kb) == <<kb.x25519PubRaw, kb.ed25519PubRaw, kb.dilithiumPubRaw>>

\* fromJsonPublic(toJsonPublic(kb).dump()) gives kb's public keys, and its
\* toJsonPublic is the same JSON
PublicRoundTrip(kb) ==
    LET text == jsonDump(toJsonPublic(kb))
        parsed == fromJsonPublic(text)
    IN /\ parsed.exc = "none"
       /\ PublicKeysOf(parsed.kb) = PublicKeysOf(kb)
       /\ jsonDump(toJsonPublic(parsed.kb)) = text

\* C36: parsing the serialized public identity yields public-key fields
\* byte-identical to the identity's, and serializing the parsed identity
\* again yields the same JSON; for the identities the store holds and for
\* the public identity a load parsed from the vault file.
C36_PublicSerializationIdempotent ==
    /\ \A s \in Seeds : PublicRoundTrip(KeyBundleNew(s))
    /\ m_user.has => PublicRoundTrip(m_user.publicBundle)
                      /\ PublicRoundTrip(m_user.fullBundle)
    /\ (last.op = "load" /\ m_user.has)
          => /\ PrivateKeysOf(m_user.publicBundle) = {}
             /\ toJsonPublic(m_user.publicBundle) = disk.user.public_keybundle
             /\ PublicKeysOf(m_user.publicBundle) = PublicKeysOf(KeyBundleNew(hist.mem.seed))

\* a record of an identity other than the first was loaded from the file
C36_Witness ==
    /\ last.op = "load"
    /\ m_user.has
    /\ hist.mem.seed = NumId
    /\ PublicKeysOf(m_user.publicBundle) # PublicKeysOf(KeyBundleNew(1))

\* the private bundle that is encrypted in privEnc, opened with the master
\* key held in memory
StoredPrivateBundle(user) ==
    fromJsonPrivate(jsonParse(decrypt(user.privEnc, user.masterKey,
                                      user.privNonce).data.val).strs)

\* C37: whenever getUser() returns a value, its fullBundle is the stored
\* user's identity: the public keys of fullBundle are those of publicBundle,
\* and with the master key in memory its private keys are the ones
\* encrypted in privEnc.
C37_FullBundleIsStoredIdentity ==
    getUser(m_user).has =>
        /\ PublicKeysOf(getUser(m_user).fullBundle)
               = PublicKeysOf(getUser(m_user).publicBundle)
        /\ LoggedIn(m_user) =>
               /\ StoredPrivateBundle(m_user).exc = "none"
               /\ StoredPrivateBundle(m_user).kb = getUser(m_user).fullBundle

\* --------------------------------------------- loads that do not succeed
\* the vault file is edited on disk: one key of the user's public_keybundle
\* is damaged, so that KeyBundle::fromJsonPublic throws inside from_json
TamperBundle(key, fault) ==
    /\ disk.exists
    /\ disk.written = "all"
    /\ disk.user.has
    /\ hist.disk.why = "ok"
    /\ disk' = [disk EXCEPT !.user.public_keybundle =
                    damagedKey(@, PublicKeyPlaces[key], fault)]
    /\ hist' = [hist EXCEPT !.disk.why = "tampered"]
    /\ last' = [NoLast EXCEPT !.op = "tamper", !.pre = hist.mem,
                               !.hadUser = m_user.has, !.wasIn = LoggedIn(m_user),
                               !.diskSame = FALSE]
    /\ UNCHANGED <<m_user, m_files, locked, changes, failObs>>
    /\ UNCHANGED <<xferVars, thr>>

\* the vault file is missing, empty, cut inside the JSON text, or holds a
\* user or file entry that from_json cannot parse
LoadCannotSucceed(d) ==
    \/ ~d.exists
    \/ d.written # "all"
    \/ /\ d.user.has
       /\ \/ fromJsonPublic(jsonDump(d.user.public_keybundle)).exc # "none"
          \/ \E k \in TamperFields : base64_decode(d.user[k]).exc # "none"
    \/ \E fj \in d.files : fcd_from_json(fj).exc # "none"

\* a store with envelopes whose vault file can be damaged or cut short
LoadFailNext ==
    \/ ~m_user.has /\ \E s \in Seeds : Register(<<97>>, 1, s, 0)
    \/ \E fcd \in Envelopes : UpsertAndSave(fcd)
    \/ Save
    \/ \E c \in SaveCuts : SaveInterrupted(c, FALSE)
    \/ Load(NumId + 1)
    \/ NewStore
    \/ \E key \in DOMAIN PublicKeyPlaces : \E fault \in KeyFaults(key) :
          TamperBundle(key, fault)

SpecLoadFail == Init /\ [][LoadFailNext]_vars

\* C38: load() is all-or-nothing: when the vault file is missing, empty,
\* unparseable or holds a malformed user or file entry, the user and the
\* envelope map in memory are what they were before the call, so a later
\* save() writes what it would have written before.
C38_LoadAllOrNothing ==
    [][(Load(NumId + 1) /\ LoadCannotSucceed(disk))
          => /\ m_user' = m_user
             /\ m_files' = m_files
             /\ to_json(m_user', m_files') = to_json(m_user, m_files)]_vars

\* ------------------------------------------------ C39: the canonical string
\* usernames as RegisterHandler::doRegister takes them: the text typed, put
\* into the body and the store as it is, "|" included
TypedNames == {<<97>>, <<97, Ch.bar, 98>>}

\* a user under a typed name who uploads, downloads, lists, shares and
\* deletes at every reading of the clock
CanonicalNext ==
    \/ ~m_user.has /\ \E u \in TypedNames : Register(u, 1, 1, 0)
    \/ PeerRegister(NumId)
    \/ \E now \in Clock : Upload(Bytes(1, <<4>>), FileName, 0, Created, now)
    \/ \E f \in 1 .. MaxFiles, now \in Clock : DownloadFD(f, "asStored", "string", now)
    \/ \E f \in 1 .. MaxFiles, now \in Clock : ListOwned(f, "string", now)
    \/ \E f \in 1 .. MaxFiles, t \in TypedNames \cup {PeerName}, now \in Clock :
          Share(f, t, 0, 201, <<now, NumClock>>)
    \/ \E f \in 1 .. MaxFiles, st \in DeleteStatuses, now \in Clock :
          DeleteFile(f, st, now)

SpecCanonical == Init /\ [][CanonicalNext]_vars

\* the places of "|" in a text
BarPlaces(s) == {i \in 1 .. Len(s) : s[i] = Ch.bar}

\* every <<username, timestamp, method, path, body>> a text can be cut into
\* at four of its "|"
FieldReadings(s) ==
    {<<SubSeq(s, 1, a - 1), SubSeq(s, a + 1, b - 1), SubSeq(s, b + 1, c - 1),
       SubSeq(s, c + 1, d - 1), SubSeq(s, d + 1, Len(s))>> :
        <<a, b, c, d>> \in {t \in BarPlaces(s) \X BarPlaces(s) \X BarPlaces(s) \X BarPlaces(s) :
                               t[1] < t[2] /\ t[2] < t[3] /\ t[3] < t[4]}}

\* C39: the canonical string of a signed request determines its five
\* fields: whatever username, timestamp, method, path and body
\* makeCanonicalString turns into the string that was signed are the
\* username, timestamp, method, path and body of the request itself, so no
\* request that differs in a field has the same canonical string.
C39_CanonicalDeterminesFields ==
    \A i \in 1 .. Len(xlast.reqs) :
        LET q == xlast.reqs[i]
        IN \A f \in FieldReadings(q.canonical) :
               makeCanonicalString(f[1], f[2], f[3], f[4], f[5]) = q.canonical
                   => f = <<q.X_Username, q.X_Timestamp, q.method, q.path, q.body>>

\* --------------------------------------------- C40: the refusals of a share
\* a store with or without a user, with or without the envelope, whose user
\* shares with themselves, with a name the server does not know and with a
\* recipient whose bundle the server may damage
ShareErrNext ==
    \/ ~m_user.has /\ Register(<<97>>, 1, 1, 0)
    \/ ClearUser
    \/ PeerRegister(NumId)
    \/ Upload(Bytes(1, <<4>>), FileName, 0, Created, 1)
    \/ \E key \in DOMAIN PublicKeyPlaces : \E fault \in KeyFaults(key) :
          ServeBundle(key, fault)
    \/ \E f \in 1 .. MaxFiles, t \in {<<97>>, <<98>>, PeerName}, st \in ShareStatuses :
          Share(f, t, 0, st, <<1, 1>>)

SpecShareErr == Init /\ [][ShareErrNext]_vars

\* the recipient's bundle cannot be fetched: the server answers with an
\* error status, or with a key_bundle that KeyBundle::fromJson rejects
BundleUnfetchable(targetUser) ==
    LET text == IF targetUser = PeerName THEN srv.peerBundle ELSE <<>>
    IN text = <<>> \/ KeyBundle_fromJson(text).exc # "none"

\* the four cases in which processShare returns before step 3
ShareRefused(fileId, targetUser) ==
    \/ ~m_user.has
    \/ m_user.username = targetUser
    \/ ~getFileData(m_files, fileId).has
    \/ BundleUnfetchable(targetUser)

====
